---- MODULE Spec2Model ----
(***************************************************************************)
(* Task Coach: the change synchronizer (changes/sync.py), the composite    *)
(* pattern it works on (patterns/composite.py) and the locked, safely      *)
(* written task file (persistence/taskfile.py).                            *)
(*                                                                         *)
(* Two devices share one task file.  Device A is "this" process: it holds  *)
(* the in-memory graph and the local ChangeMonitor.  Device B edits and    *)
(* saves the file, which leaves B's changes in A's entry of the change     *)
(* table that is stored next to the file.  A then merges with sync().      *)
(***************************************************************************)
EXTENDS Integers, Sequences, FiniteSets, TLC

\* ------------------------------------------------------------------ bounds
\* Number of edits the two devices make, together, before A merges.
MaxEdits == 2
\* Number of edits device B makes when it is the only one to edit.
MaxAwayEdits == 3
\* Number of times A calls sync() on the same disk content.
MaxSyncs == 2

\* ------------------------------------------------------------- the objects
TaskIds == {"t1", "t2", "t3", "t4"}
NoteIds == {"n1", "n2", "n3", "n4", "n5"}
AttachmentIds == {"a1", "a2"}
EffortIds == {"e1", "e2"}
CategoryIds == {"c1", "c2"}
Ids == TaskIds \cup NoteIds \cup AttachmentIds \cup EffortIds \cup CategoryIds

\* Order in which ids are enumerated when a Python set is iterated.
IdOrder == <<"t1", "t2", "t3", "t4", "n1", "n2", "n3", "n4", "n5",
             "a1", "a2", "e1", "e2", "c1", "c2">>

\* isinstance() tests of sync.py
IsCompositeObject(id) == id \in TaskIds \cup NoteIds \cup CategoryIds
IsNoteOwner(id) == id \in TaskIds \cup CategoryIds
IsAttachmentOwner(id) == id \in TaskIds \cup NoteIds \cup CategoryIds
IsTask(id) == id \in TaskIds

\* The list pairs handed to sync(), in this order.
ListKinds == <<"category", "task", "note">>

\* Object instances.  Equality of domain objects is identity, so the object
\* with id i read from the file is a different instance from the one in
\* memory: an instance is <<side, id>>.  Side "f" is the content of the file,
\* "m" the instances created in this process, ReadSide(n) the instances made
\* by the n-th read of the file.
ReadSides == <<"d1", "d2", "d3", "d4">>
ReadSide(n) == ReadSides[n]
SideOrder == <<"f", "m">> \o SubSeq(ReadSides, 1, MaxSyncs)
Sides == {SideOrder[i] : i \in 1..Len(SideOrder)}
Insts == Sides \X Ids
None == <<"-", "-">>
IdOf(o) == o[2]

\* Names of changes
DEL == "__del__"
PARENT == "__parent__"
OWNER == "__owner__"
SUBJECT == "subject"
APPEARANCE == "appearance"
CATEGORIES == "__categories__"
\* getChanges() returning None: no record for that id
NoRec == {"<None>"}

\* Device guids
ThisGuid == "A"
OtherGuid == "B"
Guids == {ThisGuid, OtherGuid}

\* Values of the ordinary attribute; every object starts with the first
MemValues == {1}
DiskValues == {1, 2}

\* ------------------------------------------------------ sequences helpers
SeqToSet(q) == {q[i] : i \in 1..Len(q)}

InSeq(q, x) == \E i \in 1..Len(q) : q[i] = x

\* list.remove(x) for an x that is in the list: the first x goes
RemoveFirst(q, x) ==
  IF ~InSeq(q, x) THEN q
  ELSE LET i == CHOOSE k \in 1..Len(q) :
                  q[k] = x /\ \A j \in 1..(k - 1) : q[j] # x
       IN SubSeq(q, 1, i - 1) \o SubSeq(q, i + 1, Len(q))

\* "for x in q: acc = Body(acc, x)"
Fold(Body(_, _), acc, q) ==
  LET f[i \in 0..Len(q)] == IF i = 0 THEN acc ELSE Body(f[i - 1], q[i])
  IN f[Len(q)]

\* All instances in the two iteration orders the model lets a set have.
AllInstsAsc ==
  [k \in 1..(Len(SideOrder) * Len(IdOrder)) |->
     <<SideOrder[((k - 1) \div Len(IdOrder)) + 1],
       IdOrder[((k - 1) % Len(IdOrder)) + 1]>>]

AllInstsDesc ==
  [k \in 1..Len(AllInstsAsc) |-> AllInstsAsc[Len(AllInstsAsc) + 1 - k]]

Orders == {"asc", "desc"}

\* Iteration over a Python set of objects
SetIter(S, ord) ==
  SelectSeq(IF ord = "asc" THEN AllInstsAsc ELSE AllInstsDesc,
            LAMBDA o : o \in S)

\* ------------------------------------------------------------ the objects
\* attrNames of applyChanges: what 'appearance' stands for
attrNames == <<"foregroundColor", "backgroundColor", "font", "icon", "selectedIcon">>

\* no colour, font or icon set
NoAppearance == [a \in SeqToSet(attrNames) |-> 0]

Blank == [parent |-> None, children |-> <<>>, notes |-> <<>>,
          attachments |-> <<>>, efforts |-> <<>>, task |-> None,
          subject |-> 0, appearance |-> NoAppearance, categories |-> {}]

\* Composite.parent
parent(h, o) == h[o].parent

\* Composite.setParent
setParent(h, o, p) == [h EXCEPT ![o].parent = p]

\* Composite.addChild
addChild(h, p, c) == [h EXCEPT ![p].children = Append(@, c), ![c].parent = p]

\* Composite.removeChild, for a child that is in the list (list.remove
\* raises ValueError otherwise; the callers test InSeq first)
removeChild(h, p, c) == [h EXCEPT ![p].children = RemoveFirst(@, c)]

RECURSIVE childrenRecursive(_, _)
\* Composite.children(recursive=True)
childrenRecursive(h, o) ==
  LET RECURSIVE Ext(_)
      Ext(q) == IF q = <<>> THEN <<>>
                ELSE childrenRecursive(h, Head(q)) \o Ext(Tail(q))
  IN h[o].children \o Ext(h[o].children)

RECURSIVE below(_, _)
\* the instances reachable from those of S through children lists
below(h, S) ==
  LET S1 == S \cup UNION {SeqToSet(h[x].children) : x \in S}
  IN IF S1 = S THEN S ELSE below(h, S1)

\* children(recursive=True) does not return for o: a child list below o
\* leads back to its owner, and Python ends the call with RecursionError
cyclic(h, o) ==
  \E x \in below(h, {o}) : x \in below(h, SeqToSet(h[x].children))

\* CompositeCollection._compositesAndAllChildren, for one composite
compositesAndAllChildren(h, o) == {o} \cup SeqToSet(childrenRecursive(h, o))

\* CompositeCollection.rootItems
rootItems(h, S, ord) ==
  SelectSeq(SetIter(S, ord),
            LAMBDA c : h[c].parent = None \/ h[c].parent \notin S)

\* CompositeCollection.allItemsSorted
allItemsSorted(h, S, ord) ==
  LET roots == rootItems(h, S, ord)
      RECURSIVE Walk(_)
      Walk(q) == IF q = <<>> THEN <<>>
                 ELSE <<Head(q)>> \o childrenRecursive(h, Head(q)) \o Walk(Tail(q))
  IN Walk(roots)

RECURSIVE allObjects(_, _)
\* ChangeSynchronizer.allObjects
allObjects(h, q) ==
  LET one(result, o) ==
        LET id == IdOf(o)
        IN result \o <<o>>
           \o (IF IsCompositeObject(id) THEN allObjects(h, h[o].children) ELSE <<>>)
           \o (IF IsNoteOwner(id) THEN allObjects(h, h[o].notes) ELSE <<>>)
           \o (IF IsAttachmentOwner(id) THEN allObjects(h, h[o].attachments) ELSE <<>>)
           \o (IF IsTask(id) THEN h[o].efforts ELSE <<>>)
  IN Fold(one, <<>>, q)

\* owner.addNote / addAttachment: appends to the owner's list
addOwned(h, owner, o) ==
  IF IdOf(o) \in NoteIds
  THEN [h EXCEPT ![owner].notes = Append(@, o)]
  ELSE [h EXCEPT ![owner].attachments = Append(@, o)]

\* owner.notes() / owner.attachments() for the class of o
ownedList(h, owner, o) ==
  IF IdOf(o) \in NoteIds THEN h[owner].notes ELSE h[owner].attachments

\* owner.removeNote / removeAttachment, for an object that is in the list
removeOwned(h, owner, o) ==
  IF IdOf(o) \in NoteIds
  THEN [h EXCEPT ![owner].notes = RemoveFirst(@, o)]
  ELSE [h EXCEPT ![owner].attachments = RemoveFirst(@, o)]

\* Effort.setTask: moves the effort to another task
setTask(h, e, t) ==
  IF h[e].task = t THEN h
  ELSE LET old == h[e].task
           h1 == IF old = None THEN h
                 ELSE [h EXCEPT ![old].efforts = RemoveFirst(@, e)]
       IN [h1 EXCEPT ![e].task = t, ![t].efforts = Append(@, e)]

\* Task.removeEffort
removeEffort(h, t, e) == [h EXCEPT ![t].efforts = RemoveFirst(@, e)]

\* ---------------------------------------------------------- ChangeMonitor
\* A change set maps every id to its set of change names, or to NoRec.

\* ChangeMonitor.getChanges
getChanges(cs, id) == cs[id]

\* "name in changes" for a getChanges() result that may be None
hasChange(cs, id, name) == cs[id] # NoRec /\ name \in cs[id]

\* ChangeMonitor.addChange
addChange(cs, id, name) ==
  [cs EXCEPT ![id] = IF @ = NoRec THEN {name} ELSE @ \cup {name}]

\* a dict that maps every id to v
everyId(v) == Fold(LAMBDA d, id : d @@ (id :> v), <<>>, IdOrder)

\* ChangeMonitor.empty
empty == everyId(NoRec)

\* ChangeMonitor.resetChanges
resetChanges(cs, id) == [cs EXCEPT ![id] = {}]

\* ChangeMonitor.resetAllChanges
resetAllChanges(cs) ==
  [id \in Ids |-> IF cs[id] = NoRec \/ DEL \in cs[id] THEN NoRec ELSE {}]

\* a faulty merge in which the record merged in replaces the one that is there
mergeRecordTheirs(mine, theirs) ==
  IF theirs = NoRec THEN mine ELSE theirs

\* a faulty merge that keeps the other names next to __del__
mergeRecordUnion(mine, theirs) ==
  IF theirs = NoRec THEN mine
  ELSE IF mine = NoRec THEN theirs
  ELSE mine \cup theirs

\* ChangeMonitor.merge: self.merge(other) folds other's record into self's
mergeRecord(mine, theirs) ==
  IF theirs = NoRec THEN mine
  ELSE IF mine = NoRec THEN theirs
  ELSE IF DEL \in mine \/ DEL \in theirs THEN {DEL}
  ELSE mine \cup theirs

merge(self, other) == [id \in Ids |-> mergeRecord(self[id], other[id])]

\* What a monitor records when an attribute of a monitored object changes
recordChange(cs, id, name) ==
  [cs EXCEPT ![id] = IF @ = NoRec THEN NoRec
                     ELSE IF DEL \in @ THEN @
                     ELSE @ \cup {name}]

\* What a monitor records when objects leave a monitored collection
recordRemoved(cs, ids) ==
  [id \in Ids |-> IF id \in ids /\ cs[id] # NoRec THEN {DEL} ELSE cs[id]]

\* ------------------------------------------------ ChangeSynchronizer.sync
\* The working state of one sync() call is a record s:
\*   h     the objects                ml, dl  the mem and disk lists
\*   memMap, memOwnerMap, diskMap, diskOwnerMap   id -> instance or None
\*   mon   the local monitor          dch     self.diskChanges
\*   conf  self.conflictChanges       ord     iteration order of sets
\*   err   "" or the exception that ended the call

NoMap == everyId(None)

raise(s, what) == [s EXCEPT !.err = what]

\* "for x in q: Body(x)" on the working state, ended by the first exception
ForEach(Body(_, _), s, q) ==
  LET f[i \in 0..Len(q)] ==
        IF i = 0 THEN s
        ELSE LET t == f[i - 1] IN IF t.err # "" THEN t ELSE Body(t, q[i])
  IN f[Len(q)]

\* the statements Stmt(s, 1), ..., Stmt(s, n) of a block, in order, ended by
\* the first exception
Steps(Stmt(_, _), s, n) ==
  LET f[i \in 0..n] ==
        IF i = 0 THEN s
        ELSE LET t == f[i - 1] IN IF t.err # "" THEN t ELSE Stmt(t, i)
  IN f[n]

RECURSIVE addIds(_, _, _, _)
\* addIds of mergeObjects; side names the pair of dicts that is filled:
\* "mem" for memMap and memOwnerMap, "disk" for diskMap and diskOwnerMap
addIds(s, q, side, owner) ==
  LET one(t, o) ==
        LET id == IdOf(o)
            stmt(u, k) ==
              CASE k = 1 -> IF side = "mem"
                            THEN [u EXCEPT !.memMap[id] = o,
                                           !.memOwnerMap[id] =
                                              IF owner # None THEN owner ELSE @]
                            ELSE [u EXCEPT !.diskMap[id] = o,
                                           !.diskOwnerMap[id] =
                                              IF owner # None THEN owner ELSE @]
                [] k = 2 -> IF IsCompositeObject(id)
                            THEN addIds(u, u.h[o].children, side, None) ELSE u
                [] k = 3 -> IF IsNoteOwner(id)
                            THEN addIds(u, u.h[o].notes, side, o) ELSE u
                [] k = 4 -> IF IsAttachmentOwner(id)
                            THEN addIds(u, u.h[o].attachments, side, o) ELSE u
                [] k = 5 -> IF IsTask(id)
                            THEN addIds(u, u.h[o].efforts, side, None) ELSE u
        IN Steps(stmt, t, 5)
  IN ForEach(one, s, q)

\* "for child in diskObject.children(): diskObject.removeChild(child)":
\* the loop walks the list it is removing from, by position
detachChildren(h, o) ==
  LET f[i \in 0..Len(h[o].children)] ==
        IF i = 0 THEN h
        ELSE LET g == f[i - 1]
             IN IF i > Len(g[o].children) THEN g
                ELSE removeChild(g, o, g[o].children[i])
  IN f[Len(h[o].children)]

\* CompositeCollection.append -> extend, on the set of list L
append(s, L, o) ==
  IF cyclic(s.h, o) THEN raise(s, "RecursionError")
  ELSE LET S1 == s.ml[L] \cup compositesAndAllChildren(s.h, o)
           p == s.h[o].parent
       IN [s EXCEPT !.ml[L] = S1,
                    !.h = IF p # None /\ p \in S1 /\ ~InSeq(s.h[p].children, o)
                          THEN addChild(s.h, p, o) ELSE @]

\* CompositeCollection.remove -> removeItems
remove(s, L, o) ==
  IF o \notin s.ml[L] THEN s
  ELSE IF cyclic(s.h, o) THEN raise(s, "RecursionError")
  ELSE LET S1 == s.ml[L] \ compositesAndAllChildren(s.h, o)
           p == s.h[o].parent
       IN IF p = None THEN [s EXCEPT !.ml[L] = S1]
          ELSE IF InSeq(s.h[p].children, o)
          THEN [s EXCEPT !.ml[L] = S1, !.h = removeChild(s.h, p, o)]
          ELSE [s EXCEPT !.ml[L] = S1, !.err = "ValueError"]

\* "elif parent is not None" of mergeCompositeObjects: the parent is deleted
\* from memory, the object becomes top-level
parentDeleted(t, o) ==
  [t EXCEPT !.h = setParent(t.h, o, None),
            !.conf = addChange(t.conf, IdOf(o), PARENT)]

\* body of the loop of mergeCompositeObjects
mergeCompositeObject(s, L, o) ==
  LET id == IdOf(o)
      p == s.h[o].parent
      memParent == IF p = None THEN None ELSE s.memMap[IdOf(p)]
      stmt(t, k) ==
        CASE k = 1 -> IF IsCompositeObject(id)
                      THEN [t EXCEPT !.h = detachChildren(t.h, o)] ELSE t
          [] k = 2 -> IF ~IsCompositeObject(id) \/ p = None THEN t
                      ELSE IF memParent # None
                      THEN [t EXCEPT !.h = setParent(addChild(t.h, memParent, o),
                                                     o, memParent)]
                      ELSE parentDeleted(t, o)
          [] k = 3 -> append(t, L, o)
          [] k = 4 -> [t EXCEPT !.memMap[id] = o]
  IN IF s.memMap[id] # None \/ hasChange(s.mon, id, DEL) THEN s
     ELSE Steps(stmt, s, 4)

\* ChangeSynchronizer.mergeCompositeObjects
mergeCompositeObjects(s, L) ==
  ForEach(LAMBDA t, o : mergeCompositeObject(t, L, o), s,
          allItemsSorted(s.h, s.dl[L], s.ord))

RECURSIVE topParent(_, _)
\* "while parent.parent() is not None: parent = parent.parent()"
topParent(h, p) == IF h[p].parent = None THEN p ELSE topParent(h, h[p].parent)

\* a faulty attachToOwner that forgets an orphan without recording __del__
attachToOwnerSilent(s, o, key, recordOwner, forget) ==
  LET id == IdOf(o)
      diskOwner == s.diskOwnerMap[key]
      memOwner == IF diskOwner = None THEN None ELSE s.memMap[IdOf(diskOwner)]
  IN IF diskOwner = None THEN raise(s, "KeyError")
     ELSE IF memOwner # None
     THEN [s EXCEPT !.h = addOwned(s.h, memOwner, o),
                    !.conf = IF recordOwner THEN addChange(@, id, OWNER) ELSE @,
                    !.memOwnerMap[id] = memOwner,
                    !.memMap[id] = o]
     ELSE IF forget THEN s
     ELSE [s EXCEPT !.memMap[id] = o]

\* the "diskOwner = self.diskOwnerMap[key]" part of _handleNewOwnedObjectsOnDisk;
\* recordOwner: the __owner__ conflict is recorded when the owner is in mem;
\* forget: the object is dropped when the owner is not in mem
attachToOwner(s, o, key, recordOwner, forget) ==
  LET id == IdOf(o)
      diskOwner == s.diskOwnerMap[key]
      memOwner == IF diskOwner = None THEN None ELSE s.memMap[IdOf(diskOwner)]
  IN IF diskOwner = None THEN raise(s, "KeyError")
     ELSE IF memOwner # None
     THEN [s EXCEPT !.h = addOwned(s.h, memOwner, o),
                    !.conf = IF recordOwner THEN addChange(@, id, OWNER) ELSE @,
                    !.memOwnerMap[id] = memOwner,
                    !.memMap[id] = o]
     ELSE IF forget THEN [s EXCEPT !.conf = addChange(@, id, DEL)]
     ELSE [s EXCEPT !.memMap[id] = o]

\* lines 156-201 of _handleNewOwnedObjectsOnDisk: an owned object new on disk
newOwnedObject(s, o) ==
  LET id == IdOf(o)
      p == s.h[o].parent
      memParent == IF p = None THEN None ELSE s.memMap[IdOf(p)]
      stmt(t, k) ==
        CASE k = 1 -> [t EXCEPT !.h = detachChildren(t.h, o)]
          [] k = 2 -> IF memParent # None
                      THEN [t EXCEPT !.h = setParent(addChild(t.h, memParent, o),
                                                     o, memParent),
                                     !.memMap[id] = o]
                      ELSE IF p # None
                      THEN attachToOwner([t EXCEPT !.h = setParent(t.h, o, None)], o,
                                         IdOf(topParent(t.h, p)), TRUE, FALSE)
                      ELSE attachToOwner(t, o, id, FALSE, TRUE)
  IN IF IsCompositeObject(id) THEN Steps(stmt, s, 2)
     ELSE attachToOwner(s, o, id, FALSE, TRUE)

RECURSIVE handleNewOwnedObjectsOnDisk(_, _)
\* ChangeSynchronizer._handleNewOwnedObjectsOnDisk
handleNewOwnedObjectsOnDisk(s, q) ==
  LET one(t, o) ==
        LET id == IdOf(o)
            children == IF IsCompositeObject(id) THEN t.h[o].children ELSE <<>>
            stmt(u, k) ==
              CASE k = 1 -> IF u.memMap[id] = None /\ ~hasChange(u.mon, id, DEL)
                            THEN newOwnedObject(u, o) ELSE u
                [] k = 2 -> IF u.memMap[id] # None /\ IsCompositeObject(id)
                            THEN handleNewOwnedObjectsOnDisk(u, children) ELSE u
                [] k = 3 -> IF u.memMap[id] # None /\ IsNoteOwner(id)
                            THEN handleNewOwnedObjectsOnDisk(u, u.h[o].notes) ELSE u
                [] k = 4 -> IF u.memMap[id] # None /\ IsAttachmentOwner(id)
                            THEN handleNewOwnedObjectsOnDisk(u, u.h[o].attachments)
                            ELSE u
        IN Steps(stmt, t, 4)
  IN ForEach(one, s, q)

\* ChangeSynchronizer._handleNewEffortsOnDisk
handleNewEffortsOnDisk(s, q) ==
  LET one(t, e) ==
        LET id == IdOf(e)
            diskTask == t.h[e].task
        IN IF t.memMap[id] # None \/ hasChange(t.mon, id, DEL) THEN t
           ELSE IF t.memMap[IdOf(diskTask)] # None
           THEN [t EXCEPT !.h = setTask(t.h, e, t.memMap[IdOf(diskTask)]),
                          !.memMap[id] = e]
           ELSE [t EXCEPT !.conf = addChange(t.conf, id, DEL)]
  IN ForEach(one, s, q)

\* ChangeSynchronizer.mergeOwnedObjectsFromDisk
mergeOwnedObjectsFromDisk(s, L) ==
  LET one(t, o) ==
        LET id == IdOf(o)
            stmt(u, k) ==
              CASE k = 1 -> IF IsNoteOwner(id)
                            THEN handleNewOwnedObjectsOnDisk(u, u.h[o].notes) ELSE u
                [] k = 2 -> IF IsAttachmentOwner(id)
                            THEN handleNewOwnedObjectsOnDisk(u, u.h[o].attachments)
                            ELSE u
                [] k = 3 -> IF IsTask(id)
                            THEN handleNewEffortsOnDisk(u, u.h[o].efforts) ELSE u
        IN Steps(stmt, t, 3)
  IN ForEach(one, s, allItemsSorted(s.h, s.dl[L], s.ord))

\* body of the loop of reparentObjects, for a disk object whose disk-side
\* change record names __parent__
reparentObject(s, L, diskObject) ==
  LET id == IdOf(diskObject)
      memObject == s.memMap[id]
      diskParent == s.h[diskObject].parent
      stmt(t, k) ==
        CASE k = 1 -> remove(t, L, memObject)
          [] k = 2 -> LET mp == t.h[memObject].parent
                      IN IF mp = None THEN t
                         ELSE IF InSeq(t.h[mp].children, memObject)
                         THEN [t EXCEPT !.h = removeChild(t.h, mp, memObject)]
                         ELSE raise(t, "ValueError")
          \* both branches of "if parentConflict" do the same
          [] k = 3 -> IF diskParent = None
                      THEN [t EXCEPT !.h = setParent(t.h, memObject, None)]
                      ELSE IF t.memMap[IdOf(diskParent)] # None
                      THEN LET memParent == t.memMap[IdOf(diskParent)]
                           IN [t EXCEPT !.h = setParent(addChild(t.h, memParent, memObject),
                                                        memObject, memParent)]
                      ELSE [t EXCEPT !.h = setParent(t.h, memObject, None),
                                     !.conf = addChange(t.conf, id, PARENT)]
          [] k = 4 -> append(t, L, memObject)
  IN IF memObject = None THEN raise(s, "KeyError") ELSE Steps(stmt, s, 4)

\* ChangeSynchronizer.reparentObjects
reparentObjects(s, L) ==
  LET one(t, o) ==
        IF hasChange(t.dch, IdOf(o), PARENT) THEN reparentObject(t, L, o) ELSE t
  IN ForEach(one, s, allObjects(s.h, SetIter(s.dl[L], s.ord)))

\* a faulty fourth pass that reports a deletion on disk as a conflict when
\* the object has local changes
deletedObjectsContested(s, L) ==
  LET one(t, o) ==
        LET id == IdOf(o)
            stmt(u, k) ==
              CASE k = 1 -> remove(u, L, o)
                [] k = 2 -> IF u.memMap[id] = None THEN raise(u, "KeyError")
                            ELSE [u EXCEPT !.memMap[id] = None,
                                           !.memOwnerMap[id] = None,
                                           !.conf = IF getChanges(u.mon, id) \in {NoRec, {}}
                                                    THEN @ ELSE addChange(@, id, DEL)]
        IN IF hasChange(t.dch, id, DEL) THEN Steps(stmt, t, 2) ELSE t
  IN ForEach(one, s, allItemsSorted(s.h, s.ml[L], s.ord))

\* ChangeSynchronizer.deletedObjects
deletedObjects(s, L) ==
  LET one(t, o) ==
        LET id == IdOf(o)
            stmt(u, k) ==
              CASE k = 1 -> remove(u, L, o)
                [] k = 2 -> IF u.memMap[id] = None THEN raise(u, "KeyError")
                            ELSE [u EXCEPT !.memMap[id] = None,
                                           !.memOwnerMap[id] = None]
        IN IF hasChange(t.dch, id, DEL) THEN Steps(stmt, t, 2) ELSE t
  IN ForEach(one, s, allItemsSorted(s.h, s.ml[L], s.ord))

\* lines 320-329 of _handleOwnedObjectsRemovedFromDisk: an owned object
\* that the disk-side change record marks deleted
removedOwnedObject(s, o) ==
  LET id == IdOf(o)
      p == s.h[o].parent
      viaOwner == ~IsCompositeObject(id) \/ p = None
      holder == IF viaOwner THEN s.memOwnerMap[id] ELSE s.memMap[IdOf(p)]
      stmt(t, k) ==
        CASE k = 1 -> IF holder = None THEN raise(t, "KeyError")
                      ELSE IF viaOwner
                      THEN IF InSeq(ownedList(t.h, holder, o), o)
                           THEN [t EXCEPT !.h = removeOwned(t.h, holder, o)]
                           ELSE raise(t, "ValueError")
                      ELSE IF InSeq(t.h[holder].children, o)
                           THEN [t EXCEPT !.h = removeChild(t.h, holder, o)]
                           ELSE raise(t, "ValueError")
          [] k = 2 -> IF t.memMap[id] = None THEN raise(t, "KeyError")
                      ELSE [t EXCEPT !.memMap[id] = None]
  IN Steps(stmt, s, 2)

RECURSIVE handleOwnedObjectsRemovedFromDisk(_, _)
RECURSIVE removedFromChildren(_, _)
RECURSIVE removedOne(_, _)

\* body of the loop of _handleOwnedObjectsRemovedFromDisk
removedOne(s, o) ==
  LET id == IdOf(o)
      stmt(t, k) ==
        CASE k = 1 -> IF IsCompositeObject(id) THEN removedFromChildren(t, o) ELSE t
          [] k = 2 -> IF IsNoteOwner(id)
                      THEN handleOwnedObjectsRemovedFromDisk(t, t.h[o].notes) ELSE t
          [] k = 3 -> IF IsAttachmentOwner(id)
                      THEN handleOwnedObjectsRemovedFromDisk(t, t.h[o].attachments)
                      ELSE t
          [] k = 4 -> IF hasChange(t.dch, id, DEL) THEN removedOwnedObject(t, o) ELSE t
  IN Steps(stmt, s, 4)

\* _handleOwnedObjectsRemovedFromDisk(memObject.children()): the loop walks,
\* by position, the live children list of p, which removedOwnedObject shortens
removedFromChildren(s, p) ==
  LET f[i \in 0..Len(s.h[p].children)] ==
        IF i = 0 THEN s
        ELSE LET t == f[i - 1]
             IN IF t.err # "" \/ i > Len(t.h[p].children) THEN t
                ELSE removedOne(t, t.h[p].children[i])
  IN f[Len(s.h[p].children)]

\* ChangeSynchronizer._handleOwnedObjectsRemovedFromDisk on the list that
\* owner.notes() or owner.attachments() returned
handleOwnedObjectsRemovedFromDisk(s, q) == ForEach(removedOne, s, q)

\* ChangeSynchronizer._handleEffortsRemovedFromDisk
handleEffortsRemovedFromDisk(s, q) ==
  LET one(t, e) ==
        LET id == IdOf(e)
            task == t.h[e].task
        IN IF ~hasChange(t.dch, id, DEL) THEN t
           ELSE IF t.memMap[IdOf(task)] = None \/ t.memMap[id] = None
           THEN raise(t, "KeyError")
           ELSE [t EXCEPT !.h = removeEffort(t.h, t.memMap[IdOf(task)], e),
                          !.memMap[id] = None]
  IN ForEach(one, s, q)

\* ChangeSynchronizer.deletedOwnedObjects
deletedOwnedObjects(s, L) ==
  LET one(t, o) ==
        LET id == IdOf(o)
            stmt(u, k) ==
              CASE k = 1 -> IF IsNoteOwner(id)
                            THEN handleOwnedObjectsRemovedFromDisk(u, u.h[o].notes)
                            ELSE u
                [] k = 2 -> IF IsAttachmentOwner(id)
                            THEN handleOwnedObjectsRemovedFromDisk(u, u.h[o].attachments)
                            ELSE u
                [] k = 3 -> IF IsTask(id)
                            THEN handleEffortsRemovedFromDisk(u, u.h[o].efforts) ELSE u
        IN Steps(stmt, t, 3)
  IN ForEach(one, s, allItemsSorted(s.h, s.ml[L], s.ord))

\* the local list "conflicts" after the loop over attrNames: the names of
\* the sub-attributes whose mem and disk values differ
appearanceConflicts(s, memObject, diskObject) ==
  SelectSeq(attrNames,
            LAMBDA a : s.h[memObject].appearance[a] # s.h[diskObject].appearance[a])

\* "elif changeName == 'appearance'" of applyChanges; the list of differing
\* sub-attributes is only printed, addChange follows the loop whatever it
\* has found
appearanceChanged(s, memObject, diskObject) ==
  IF hasChange(s.mon, IdOf(memObject), APPEARANCE)
  THEN LET conflicts == appearanceConflicts(s, memObject, diskObject)
       IN [s EXCEPT !.conf = addChange(s.conf, IdOf(memObject), APPEARANCE)]
  ELSE [s EXCEPT !.h[memObject].appearance = s.h[diskObject].appearance]

\* "elif changeName == '__categories__'" of applyChanges: the categories of
\* the disk object are looked up in memMap by id, which raises KeyError for
\* an id that is not in the map
categoriesChanged(s, memObject, diskObject) ==
  LET id == IdOf(memObject)
      wanted == {IdOf(c) : c \in s.h[diskObject].categories}
      diskCategories == {s.memMap[c] : c \in wanted}
  IN IF \E c \in wanted : s.memMap[c] = None THEN raise(s, "KeyError")
     ELSE IF hasChange(s.mon, id, CATEGORIES)
             /\ diskCategories # s.h[memObject].categories
     THEN [s EXCEPT !.conf = addChange(s.conf, id, CATEGORIES)]
     ELSE [s EXCEPT !.h[memObject].categories = diskCategories]

\* a faulty loop body that copies the subject of the disk object whatever
\* the name of the change is
applyChangeWholeObject(s, memObject, diskObject, changeName) ==
  IF changeName \in {APPEARANCE, CATEGORIES}
  THEN [s EXCEPT !.h[memObject].subject = s.h[diskObject].subject,
                 !.h[memObject].appearance = s.h[diskObject].appearance]
  ELSE IF changeName = SUBJECT
  THEN [s EXCEPT !.h[memObject].subject = s.h[diskObject].subject]
  ELSE s

\* one changeName of the loop of applyChanges
applyChange(s, memObject, diskObject, changeName) ==
  LET id == IdOf(memObject)
  IN IF changeName = PARENT THEN s
     ELSE IF changeName = APPEARANCE
     THEN appearanceChanged(s, memObject, diskObject)
     ELSE IF changeName = CATEGORIES
     THEN categoriesChanged(s, memObject, diskObject)
     ELSE IF changeName = SUBJECT
     THEN IF hasChange(s.mon, id, SUBJECT)
             /\ s.h[memObject].subject # s.h[diskObject].subject
          THEN [s EXCEPT !.conf = addChange(s.conf, id, SUBJECT)]
          ELSE [s EXCEPT !.h[memObject].subject = s.h[diskObject].subject]
     ELSE raise(s, "AttributeError")

\* "for changeName in diskChanges": the names in the order PARENT, SUBJECT,
\* then the others; the branches write different fields, so every order of
\* the names gives the same result
applyChangeNames(s, memObject, diskObject, names) ==
  ForEach(LAMBDA t, n : IF n \in names THEN applyChange(t, memObject, diskObject, n)
                        ELSE t,
          s, <<PARENT, SUBJECT, APPEARANCE, CATEGORIES, DEL>>)

\* ChangeSynchronizer.applyChanges
applyChanges(s, L) ==
  LET one(t, memObject) ==
        LET id == IdOf(memObject)
            diskChanges == getChanges(t.dch, id)
        IN IF diskChanges = NoRec \/ diskChanges = {} THEN t
           ELSE IF t.diskMap[id] = None THEN raise(t, "KeyError")
           ELSE applyChangeNames(t, memObject, t.diskMap[id], diskChanges)
  IN ForEach(one, s, allObjects(s.h, rootItems(s.h, s.ml[L], s.ord)))

\* ChangeSynchronizer.mergeObjects, as far as it gets
mergeObjects(s, L) ==
  LET stmt(t, k) ==
        CASE k = 1 -> addIds(t, SetIter(t.ml[L], t.ord), "mem", None)
          [] k = 2 -> addIds(t, SetIter(t.dl[L], t.ord), "disk", None)
          [] k = 3 -> mergeCompositeObjects(t, L)
          [] k = 4 -> mergeOwnedObjectsFromDisk(t, L)
          [] k = 5 -> reparentObjects(t, L)
          [] k = 6 -> deletedObjects(t, L)
          [] k = 7 -> deletedOwnedObjects(t, L)
          [] k = 8 -> applyChanges(t, L)
  IN Steps(stmt, s, 8)

\* "for memList, diskList in lists: self.mergeObjects(memList, diskList)"
mergeLists(s) == ForEach(mergeObjects, s, ListKinds)

\* every object of the in-memory lists: allObjects(memList.rootItems())
\* over all lists, as the cleanup of sync() enumerates them
memObjects(h, ml) ==
  LET roots == UNION {SeqToSet(rootItems(h, ml[ListKinds[i]], "asc")) :
                        i \in 1..Len(ListKinds)}
      RECURSIVE reach(_)
      reach(S) ==
        LET S1 == S \cup UNION {SeqToSet(h[x].children) \cup SeqToSet(h[x].notes)
                                \cup SeqToSet(h[x].attachments)
                                \cup SeqToSet(h[x].efforts) : x \in S}
        IN IF S1 = S THEN S ELSE reach(S1)
  IN reach(roots)

\* a faulty cleanup that resets the record of the root items only
cleanupMonitorRoots(h, ml) ==
  LET roots == UNION {SeqToSet(rootItems(h, ml[ListKinds[i]], "asc")) :
                        i \in 1..Len(ListKinds)}
  IN [id \in Ids |-> IF id \in {IdOf(o) : o \in roots} THEN {} ELSE NoRec]

\* "Cleanup monitor" of sync()
cleanupMonitor(h, ml) ==
  LET present == {IdOf(o) : o \in memObjects(h, ml)}
  IN [id \in Ids |-> IF id \in present THEN {} ELSE NoRec]

\* ------------------------------------------------------------- the state
VARIABLES
  heap,            \* instance -> its fields
  memLists,        \* list kind -> the instances in TaskFile's list (a set)
  fileLists,       \* list kind -> the instances the file holds
  monitor,         \* the local ChangeMonitor's change set
  allChanges,      \* the change table: guid -> change set
  conflictChanges, \* conflictChanges of the last sync()
  nedits,          \* edits made so far
  nsync,           \* sync() calls made so far
  syncErr,         \* "" or the exception that ended the last sync()
  pre,             \* what the last sync() started from
  files,           \* the task file, its temporary file, its sidecar, its lock
  taskFile,        \* the LockedTaskFile of this process and the call it is in
  session,         \* the TaskFile of a session with a watcher: its flags, the
                   \* call the main thread is in, the watched file
  notifier,        \* the FilesystemPollerNotifier and its thread
  frozen,          \* the ChangeMonitor's freeze()/thaw() state
  iphone,          \* the IPhoneHandler of a connection and the task file it fills
  commandHistory,  \* the CommandHistory: its history and future lists
  controller,      \* the IOController's open() and the loads it has asked for
  devices          \* two processes that share a task file, and the file

vars == <<heap, memLists, fileLists, monitor, allChanges, conflictChanges,
          nedits, nsync, syncErr, pre, files, taskFile, session, notifier,
          frozen, iphone, commandHistory, controller, devices>>

\* the command history, the IOController and the two devices
apart == <<commandHistory, controller, devices>>

\* the variables of a session with a watcher
watch == <<session, notifier, frozen, iphone, apart>>

BaseIds == {"t1", "t2", "t3", "n1", "n2", "n3", "a1", "e1"}
NewIds == Ids \ BaseIds

\* The graph both devices start from, on side sd
BaseObject(sd, id) ==
  CASE id = "t1" -> [Blank EXCEPT !.children = <<<<sd, "t2">>>>,
                                  !.notes = <<<<sd, "n1">>>>]
    [] id = "t2" -> [Blank EXCEPT !.parent = <<sd, "t1">>]
    [] id = "t3" -> [Blank EXCEPT !.attachments = <<<<sd, "a1">>>>,
                                  !.efforts = <<<<sd, "e1">>>>]
    [] id = "n1" -> [Blank EXCEPT !.children = <<<<sd, "n2">>, <<sd, "n3">>>>]
    [] id \in {"n2", "n3"} -> [Blank EXCEPT !.parent = <<sd, "n1">>]
    [] id = "e1" -> [Blank EXCEPT !.task = <<sd, "t3">>]
    [] OTHER -> Blank

BaseLists(sd) ==
  [L \in SeqToSet(ListKinds) |->
     IF L = "task" THEN {<<sd, "t1">>, <<sd, "t2">>, <<sd, "t3">>} ELSE {}]

\* The monitor after load(): an empty record for every loaded object
BaseChanges == [id \in Ids |-> IF id \in BaseIds THEN {} ELSE NoRec]

NoPre == [ids |-> {}, view |-> <<>>, mon |-> empty, dch |-> empty, objs |-> {}]

\* a content of a file: complete (version ver), partly written, truncated to
\* nothing, or no file at all
Content(kind, ver) == [kind |-> kind, ver |-> ver]

\* the files of a task file that was saved once, in a directory that is
\* cloud-synced or not, and nobody holding the lock: main is the content at
\* the target path, temp that of the temporary file, delta the number of
\* times the sidecar was written, lock the holder of the lock file, ver the
\* newest version any process has written
FilesAtRest(cloud) ==
  [main |-> Content("complete", 0), temp |-> Content("missing", 0),
   delta |-> 0, lock |-> "none", cloud |-> cloud, ver |-> 0,
   otherSaves |-> 0]

\* LockedTaskFile.__init__: no lock object yet (self.__lock = None), no call
\* under way.  pc is the statement the call under way has reached, op, lock,
\* breakLock its name and arguments, needSave the flag TaskFile.save() tests,
\* waited the seconds acquire() has waited, exc the exception on its way out,
\* result how the last call ended, touched what the call has done so far.
TaskFileAtRest ==
  [pc |-> "idle", op |-> "", lock |-> TRUE, breakLock |-> FALSE,
   needSave |-> FALSE, lockObj |-> FALSE, waited |-> 0, exc |-> "",
   result |-> "", touched |-> {}, calls |-> 0, crashed |-> FALSE]

\* NotifierBase.stamp when no modification time is recorded
NoStamp == -1

\* TaskFile.__init__ (taskfile.py:197-222) next to a file with modification
\* time 0: no filename yet, nothing to save, no call under way.  pc is the
\* statement the main thread has reached, exc the exception on its way
\* out, result how the last call ended, calls the calls made, found
\* whether load() found a file, own what self.__changes holds for this
\* device's guid (the monitor, or the record read from the file), pending
\* whether another process has
\* written the file, the flag being down, without this process having
\* flagged or read it since; file is the watched file: whether it
\* exists, its modification time, whether its directory is cloud-synced,
\* whether it parses, the writes of other processes so far
SessionAtRest(exists, cloud) ==
  [pc |-> "idle", op |-> "", filename |-> FALSE, needSave |-> FALSE,
   loading |-> FALSE, saving |-> FALSE, changedOnDisk |-> FALSE,
   exc |-> "", result |-> "", calls |-> 0, found |-> FALSE,
   own |-> "monitor", pending |-> FALSE,
   file |-> [exists |-> exists, mtime |-> 0, cloud |-> cloud,
             valid |-> TRUE, writes |-> 0]]

\* FilesystemPollerNotifier.__init__: the thread is started, no filename,
\* no stamp.  pc is the statement the thread has reached, seen the
\* modification time its os.stat() returned, lock the holder of self.lock,
\* posted the notifications handed to the main thread
NotifierAtRest ==
  [pc |-> "wait", filename |-> FALSE, stamp |-> NoStamp, seen |-> 0,
   cancelled |-> FALSE, lock |-> "none", posted |-> 0, exc |-> ""]

\* ChangeMonitor.__init__: not frozen.  depth is the number of freeze()
\* calls not yet matched by a thaw(), freezes and thaws count the calls,
\* dropped the mutation events that were not recorded
MonitorThawed == [depth |-> 0, freezes |-> 0, thaws |-> 0, dropped |-> 0]

\* IPhoneAcceptor before a device connects: no IPhoneHandler
NoHandler == [class |-> ""]

\* CommandHistory.__init__: both lists are empty
NoCommands == [history |-> <<>>, future |-> <<>>, calls |-> <<>>]

\* IOController.__init__: no open() has been asked for.  pc is the statement
\* open() has reached, lock and breakLock the arguments of the call under
\* way, depth the number of open() calls on the stack, attempts the loads
\* the top-level call has asked for so far (each with the way it ended and
\* the user's answer to the question that followed), dirty the task file's
\* needSave(), named whether it has a file open, result how the last
\* top-level call ended, opens the top-level calls made
ControllerAtRest ==
  [pc |-> "idle", lock |-> TRUE, breakLock |-> FALSE, depth |-> 0,
   attempts |-> <<>>, dirty |-> FALSE, named |-> FALSE, result |-> "",
   opens |-> 0]

\* no second process shares the file
NoDevices == [stage |-> "none"]

\* nothing of the command history, the IOController or a second device
Apart ==
  /\ commandHistory = NoCommands
  /\ controller = ControllerAtRest
  /\ devices = NoDevices

\* no session with a watcher is under way, no device is connected
Unwatched ==
  /\ session = SessionAtRest(TRUE, FALSE)
  /\ notifier = NotifierAtRest
  /\ frozen = MonitorThawed
  /\ iphone = NoHandler
  /\ Apart

\* the two devices have loaded the same file
Loaded ==
  /\ heap = [o \in Insts |-> IF o[1] \in {"m", "f"} THEN BaseObject(o[1], o[2])
                             ELSE Blank]
  /\ memLists = BaseLists("m")
  /\ fileLists = BaseLists("f")
  /\ monitor = BaseChanges
  /\ allChanges = [g \in Guids |-> BaseChanges]
  /\ conflictChanges = empty
  /\ nedits = 0
  /\ nsync = 0
  /\ syncErr = ""
  /\ pre = NoPre

Init ==
  /\ Loaded
  /\ files = FilesAtRest(FALSE)
  /\ taskFile = TaskFileAtRest
  /\ Unwatched

\* ids of the objects of the graph with lists ls
objectIds(h, ls) == {IdOf(o) : o \in memObjects(h, ls)}

IdsOfSeq(q) == [i \in 1..Len(q) |-> IdOf(q[i])]

\* the graph with lists ls, by id
view(h, ls) ==
  LET objs == memObjects(h, ls)
  IN [o \in objs |->
        [parent |-> IdOf(h[o].parent), children |-> IdsOfSeq(h[o].children),
         notes |-> IdsOfSeq(h[o].notes), attachments |-> IdsOfSeq(h[o].attachments),
         efforts |-> IdsOfSeq(h[o].efforts), task |-> IdOf(h[o].task),
         subject |-> h[o].subject, appearance |-> h[o].appearance,
         categories |-> {IdOf(c) : c \in h[o].categories}]]

\* the graph with lists ls, by id only (instances forgotten)
viewById(h, ls) ==
  LET objs == memObjects(h, ls)
      v == view(h, ls)
  IN [id \in {IdOf(o) : o \in objs} |-> v[CHOOSE o \in objs : IdOf(o) = id]]

\* ------------------------------------------------ edits by the two devices
\* Device A edits the objects of side "m", recorded by the local monitor;
\* device B edits the file (side "f"), recorded in A's entry of the table.
listsOf(sd) == IF sd = "m" THEN memLists ELSE fileLists

changesOf(sd) == IF sd = "m" THEN monitor ELSE allChanges[ThisGuid]

EditSides == {"m", "f"}

\* an object a device can edit: in its graph and known since the last load
editable(pr, sd, id) ==
  /\ <<sd, id>> \in pr[sd]
  /\ changesOf(sd)[id] # NoRec
  /\ DEL \notin changesOf(sd)[id]

\* the edits come before the merge
canEdit == nsync = 0 /\ nedits < MaxEdits

canEditAway == nsync = 0 /\ nedits < MaxAwayEdits

edited(sd, h, ls, cs) ==
  /\ heap' = h
  /\ IF sd = "m"
     THEN /\ memLists' = ls
          /\ monitor' = cs
          /\ UNCHANGED <<fileLists, allChanges>>
     ELSE /\ fileLists' = ls
          /\ allChanges' = [allChanges EXCEPT ![ThisGuid] = cs]
          /\ UNCHANGED <<memLists, monitor>>
  /\ nedits' = nedits + 1
  /\ UNCHANGED <<conflictChanges, nsync, syncErr, pre, files, taskFile>>
  /\ UNCHANGED watch

\* Object.setSubject
SetSubject(pr, sd, id, v) ==
  /\ editable(pr, sd, id)
  /\ v \in (IF sd = "m" THEN MemValues ELSE DiskValues)
  /\ edited(sd, [heap EXCEPT ![<<sd, id>>].subject = v], listsOf(sd),
            recordChange(changesOf(sd), id, SUBJECT))

\* a task is dragged under another task, or to the top level
Reparent(pr, sd, id, pid) ==
  LET o == <<sd, id>>
      p == IF pid = "-" THEN None ELSE <<sd, pid>>
      old == heap[o].parent
      h1 == IF old = None THEN heap ELSE removeChild(heap, old, o)
      h2 == IF p = None THEN setParent(h1, o, None) ELSE addChild(h1, p, o)
  IN /\ id \in TaskIds
     /\ editable(pr, sd, id)
     /\ p # old
     /\ p # None => /\ p \in listsOf(sd)["task"]
                    /\ p \notin compositesAndAllChildren(heap, o)
     /\ edited(sd, h2, listsOf(sd), recordChange(changesOf(sd), id, PARENT))

\* the object that holds o in its notes or attachments, or None
ownerOf(h, objs, o) ==
  LET owners == {w \in objs : InSeq(ownedList(h, w, o), o)}
  IN IF owners = {} THEN None ELSE CHOOSE w \in owners : TRUE

\* an object is deleted: a task leaves the list with its subtasks, an owned
\* object leaves its owner or its parent
Delete(pr, sd, id) ==
  LET o == <<sd, id>>
      ls == listsOf(sd)
      p == heap[o].parent
      gone == IF IsCompositeObject(id) THEN compositesAndAllChildren(heap, o) ELSE {o}
      h1 == IF id \in EffortIds THEN removeEffort(heap, heap[o].task, o)
            ELSE IF IsCompositeObject(id) /\ p # None THEN removeChild(heap, p, o)
            ELSE IF id \in TaskIds THEN heap
            ELSE removeOwned(heap, ownerOf(heap, pr[sd], o), o)
      ls1 == IF id \in TaskIds THEN [ls EXCEPT !["task"] = @ \ gone] ELSE ls
  IN /\ editable(pr, sd, id)
     /\ edited(sd, h1, ls1, recordRemoved(changesOf(sd), {IdOf(g) : g \in gone}))

\* an id no device has used yet
unused(pr, id) ==
  /\ id \in NewIds
  /\ <<"m", id>> \notin pr["m"]
  /\ <<"f", id>> \notin pr["f"]

\* a new task is created, top-level when pid is "-"
AddTask(pr, sd, id, pid) ==
  LET o == <<sd, id>>
      p == IF pid = "-" THEN None ELSE <<sd, pid>>
      h1 == [heap EXCEPT ![o] = Blank]
      h2 == IF p = None THEN h1 ELSE addChild(h1, p, o)
  IN /\ id \in TaskIds
     /\ unused(pr, id)
     /\ p # None => p \in listsOf(sd)["task"]
     /\ edited(sd, h2, [listsOf(sd) EXCEPT !["task"] = @ \cup {o}], changesOf(sd))

\* a new note, attachment or effort is added to a task; a new note may come
\* with a sub-note
AddOwned(pr, sd, id, wid, sub) ==
  LET o == <<sd, id>>
      w == <<sd, wid>>
      c == <<sd, sub>>
      h1 == [heap EXCEPT ![o] = Blank]
      h2 == IF id \in EffortIds THEN setTask(h1, o, w) ELSE addOwned(h1, w, o)
      h3 == IF sub = "-" THEN h2 ELSE addChild([h2 EXCEPT ![c] = Blank], o, c)
  IN /\ id \in NoteIds \cup AttachmentIds \cup EffortIds
     /\ unused(pr, id)
     /\ w \in listsOf(sd)["task"]
     /\ sub # "-" => id \in NoteIds /\ sub \in NoteIds /\ sub # id /\ unused(pr, sub)
     /\ edited(sd, h3, listsOf(sd), changesOf(sd))

\* ------------------------------------------------------------------ sync
rename(sd, o) == IF o = None THEN None ELSE <<sd, IdOf(o)>>

renameSeq(sd, q) == Fold(LAMBDA r, o : Append(r, rename(sd, o)), <<>>, q)

\* the objects the XML reader makes from the file: fresh instances on side sd
readObject(sd, r) ==
  [parent |-> rename(sd, r.parent), children |-> renameSeq(sd, r.children),
   notes |-> renameSeq(sd, r.notes), attachments |-> renameSeq(sd, r.attachments),
   efforts |-> renameSeq(sd, r.efforts), task |-> rename(sd, r.task),
   subject |-> r.subject, appearance |-> r.appearance,
   categories |-> {rename(sd, c) : c \in r.categories}]

read(h, sd) ==
  Fold(LAMBDA g, id : [g EXCEPT ![<<sd, id>>] = readObject(sd, g[<<"f", id>>])],
       h, IdOrder)

readLists(sd) ==
  Fold(LAMBDA ls, L : [ls EXCEPT ![L] = {rename(sd, o) : o \in @}],
       fileLists, ListKinds)

\* the working state sync() starts with: the lists just read from the file
\* on side sd, the maps empty, diskChanges this device's entry of the table
start(sd, ord) ==
  [h |-> read(heap, sd), ml |-> memLists, dl |-> readLists(sd),
   memMap |-> NoMap, memOwnerMap |-> NoMap,
   diskMap |-> NoMap, diskOwnerMap |-> NoMap,
   mon |-> monitor, dch |-> allChanges[ThisGuid],
   conf |-> empty, ord |-> ord, err |-> ""]

\* a faulty end of sync() that leaves conflictChanges out of the records of
\* the other devices
leaveUnmerged(s) ==
  LET mon1 == IF s.err = "" THEN cleanupMonitor(s.h, s.ml) ELSE monitor
  IN /\ heap' = s.h
     /\ memLists' = s.ml
     /\ monitor' = mon1
     /\ allChanges' =
          [g \in Guids |->
             IF g = ThisGuid THEN mon1 ELSE merge(allChanges[g], monitor)]
     /\ conflictChanges' = s.conf
     /\ syncErr' = s.err

\* what sync() leaves behind, s being the working state its loop over the
\* lists ended with
leave(s) ==
  LET mon1 == IF s.err = "" THEN cleanupMonitor(s.h, s.ml) ELSE monitor
  IN /\ heap' = s.h
     /\ memLists' = s.ml
     /\ monitor' = mon1
     /\ allChanges' =
          [g \in Guids |->
             IF g = ThisGuid THEN mon1
             ELSE IF s.err = "" THEN merge(merge(allChanges[g], monitor), s.conf)
             ELSE merge(allChanges[g], monitor)]
     /\ conflictChanges' = s.conf
     /\ syncErr' = s.err

\* ChangeSynchronizer.sync, called with the lists just read from the file;
\* ord is the order in which Python happens to iterate the sets
synced(ord) ==
  /\ leave(mergeLists(start(ReadSide(nsync + 1), ord)))
  /\ nsync' = nsync + 1
  /\ pre' = [ids |-> objectIds(heap, memLists), view |-> viewById(heap, memLists),
             mon |-> monitor, dch |-> allChanges[ThisGuid],
             objs |-> memObjects(heap, memLists)]
  /\ UNCHANGED <<fileLists, nedits>>

\* A merges with the file as the edits left it; a call that raised is not
\* followed by another
Sync(ord) ==
  /\ nsync < MaxSyncs
  /\ syncErr = ""
  /\ synced(ord)
  /\ UNCHANGED <<files, taskFile>>
  /\ UNCHANGED watch

\* the objects of the two graphs
present == [sd \in EditSides |-> memObjects(heap, listsOf(sd))]

Next ==
  \/ /\ canEdit
     /\ LET pr == present
        IN \E sd \in EditSides, id \in Ids, v \in MemValues \cup DiskValues :
             SetSubject(pr, sd, id, v)
  \/ /\ canEdit
     /\ LET pr == present
        IN \E sd \in EditSides, id \in TaskIds, pid \in TaskIds \cup {"-"} :
             Reparent(pr, sd, id, pid)
  \/ /\ canEdit
     /\ LET pr == present
        IN \E sd \in EditSides, id \in Ids : Delete(pr, sd, id)
  \/ /\ canEdit
     /\ LET pr == present
        IN \E sd \in EditSides, id \in TaskIds, pid \in TaskIds \cup {"-"} :
             AddTask(pr, sd, id, pid)
  \/ /\ canEdit
     /\ LET pr == present
        IN \E sd \in EditSides, id \in Ids, wid \in TaskIds, sub \in NoteIds \cup {"-"} :
             AddOwned(pr, sd, id, wid, sub)
  \/ \E ord \in Orders : Sync(ord)

Spec == Init /\ [][Next]_vars

\* Device A leaves its copy alone while device B adds, moves and deletes
\* objects in the file, then merges
AwayNext ==
  \/ /\ canEditAway
     /\ LET pr == present
        IN \E id \in TaskIds, pid \in TaskIds \cup {"-"} : Reparent(pr, "f", id, pid)
  \/ /\ canEditAway
     /\ LET pr == present
        IN \E id \in Ids : Delete(pr, "f", id)
  \/ /\ canEditAway
     /\ LET pr == present
        IN \E id \in TaskIds, pid \in TaskIds \cup {"-"} : AddTask(pr, "f", id, pid)
  \/ /\ canEditAway
     /\ LET pr == present
        IN \E id \in Ids, wid \in TaskIds, sub \in NoteIds \cup {"-"} :
             AddOwned(pr, "f", id, wid, sub)
  \/ \E ord \in Orders : Sync(ord)

AwaySpec == Init /\ [][AwayNext]_vars


\* ------------------------------------------------- the merge: properties
\* a sync() call has ended, with an exception or without
syncEnded == nsync >= 1

\* the last sync() call returned
syncReturned == syncEnded /\ syncErr = ""

\* the in-memory graph and the graph the file holds, by id
memIds == objectIds(heap, memLists)

memView == viewById(heap, memLists)

diskIds == objectIds(heap, fileLists)

diskView == viewById(heap, fileLists)

\* the object that holds id in the graph v: its parent, owner or task
holder(v, id) ==
  LET hs == {w \in DOMAIN v :
               id \in SeqToSet(v[w].children) \cup SeqToSet(v[w].notes)
                        \cup SeqToSet(v[w].attachments) \cup SeqToSet(v[w].efforts)}
  IN IF hs = {} THEN "-" ELSE CHOOSE w \in hs : TRUE

RECURSIVE holders(_, _)
\* everything above id in the graph v
holders(v, id) ==
  LET w == holder(v, id) IN IF w = "-" THEN {} ELSE {w} \cup holders(v, w)

OwnedIds == NoteIds \cup AttachmentIds \cup EffortIds

\* id came into being on the other device: on disk, not in mem before the
\* merge and unknown to the local monitor
newOnDisk(id) == id \in diskIds /\ id \notin pre.ids /\ pre.mon[id] = NoRec

\* id came into being on this device
newInMem(id) == id \in pre.ids /\ id \notin diskIds /\ pre.dch[id] = NoRec

\* C1 (Deletion dominance): after sync(), every id whose disk-side change
\* record contains __del__ is absent from the in-memory graph, whatever the
\* local monitor recorded for it.
DeletionDominance ==
  syncEnded => \A id \in Ids : hasChange(pre.dch, id, DEL) => id \notin memIds

\* both sides changed the subject of id, to different values
subjectConflict(id) ==
  /\ id \in pre.ids
  /\ id \in diskIds
  /\ hasChange(pre.dch, id, SUBJECT)
  /\ hasChange(pre.mon, id, SUBJECT)
  /\ pre.view[id].subject # diskView[id].subject

memSubjectKept(id) ==
  /\ id \in memIds
  /\ memView[id].subject = pre.view[id].subject
  /\ hasChange(conflictChanges, id, SUBJECT)

\* C2 (Conflict symmetry): when the disk-side record and the local monitor
\* both name an ordinary attribute of an object present on both sides and the
\* two values differ, then after sync() has returned mem has the value it had
\* before and conflictChanges records the attribute for that id.
ConflictSymmetry ==
  syncReturned => \A id \in Ids : subjectConflict(id) => memSubjectKept(id)

\* disk moved x to P2, mem moved x to P3, P2 # P3, P2 present in mem
reparentedTwice(x) ==
  /\ x \in pre.ids
  /\ x \in diskIds
  /\ hasChange(pre.dch, x, PARENT)
  /\ hasChange(pre.mon, x, PARENT)
  /\ diskView[x].parent # "-"
  /\ diskView[x].parent \in pre.ids
  /\ pre.view[x].parent # "-"
  /\ pre.view[x].parent # diskView[x].parent

\* C3 (Reparent-disk-wins): if the disk-side record says X was reparented to
\* P2 and the local monitor says X was reparented to P3, P2 # P3 and P2 in
\* mem, then after sync() the parent of X in mem is the object with P2's id
\* and conflictChanges has a __parent__ entry for X.
ReparentDiskWins ==
  syncEnded =>
    \A x \in TaskIds :
      reparentedTwice(x) =>
        /\ x \in memIds
        /\ memView[x].parent = diskView[x].parent
        /\ hasChange(conflictChanges, x, PARENT)

\* an owned object new on disk with nothing of its owner chain in mem
orphan(id) ==
  /\ newOnDisk(id)
  /\ \A c \in holders(diskView, id) : c \notin pre.ids /\ c \notin memIds

\* C4 (Orphan drop), as the code has it: every owned object that is new on
\* disk and has no object of its owner chain in mem is absent from mem after
\* sync() has returned; __del__ is recorded in conflictChanges for the object whose owner
\* was looked up and not found, and nothing is recorded for the sub-notes of
\* a dropped note.
OrphanDrop ==
  syncReturned =>
    \A id \in OwnedIds :
      orphan(id) =>
        /\ id \notin memIds
        /\ IF holder(diskView, id) \in TaskIds
           THEN hasChange(conflictChanges, id, DEL)
           ELSE conflictChanges[id] = NoRec

OrphanDropWitness ==
  /\ syncReturned
  /\ \E id \in NoteIds, sub \in NoteIds :
       /\ orphan(id) /\ orphan(sub)
       /\ holder(diskView, sub) = id
       /\ holder(diskView, id) \in TaskIds
       /\ memIds \cap {id, sub} = {}
       /\ hasChange(conflictChanges, id, DEL)

\* C4 as stated: the sub-notes of a dropped note have __del__ recorded too.
OrphanDropAsStated ==
  syncReturned =>
    \A id \in OwnedIds :
      orphan(id) => id \notin memIds /\ hasChange(conflictChanges, id, DEL)

noPending(cs) == \A id \in Ids : cs[id] \in {NoRec, {}}

\* C5 (Idempotence): when the content of the disk graph equals the mem graph
\* and no local changes are recorded, sync() leaves conflictChanges empty and
\* the mem graph as it was, the first time and the second.
Idempotence ==
  syncEnded =>
    (pre.view = diskView /\ noPending(pre.mon)
       => syncErr = "" /\ conflictChanges = empty /\ memView = pre.view)

\* the other device deleted id, this device changed an attribute of it
deletedAndChanged(id) ==
  hasChange(pre.dch, id, DEL) /\ hasChange(pre.mon, id, SUBJECT)

nothingPending(id) == monitor[id] \in {NoRec, {}} /\ conflictChanges[id] = NoRec

touchedInMem == {id \in Ids : pre.mon[id] \notin {NoRec, {}} \/ newInMem(id)}

touchedOnDisk == {id \in Ids : pre.dch[id] \notin {NoRec, {}} \/ newOnDisk(id)}

noDeletion(cs, ids) == \A id \in ids : ~hasChange(cs, id, DEL)

\* C7 (Independent additions are both kept), read in the code's favour where
\* the statement leaves room (an object goes with a deleted object above it,
\* a new owned object needs its owner in mem): after a sync() that returns,
\* mem contains every object that was in mem before when neither it nor
\* anything above it has __del__ in the disk-side record, and every object
\* new on disk whose parents and owners are in mem; and when this device
\* deleted nothing and the ids touched on the two sides do not overlap,
\* conflictChanges is empty.
IndependentAdditions ==
  syncReturned =>
    /\ \A id \in pre.ids :
         noDeletion(pre.dch, {id} \cup holders(pre.view, id)) => id \in memIds
    /\ \A id \in Ids :
         newOnDisk(id) /\ holders(diskView, id) \subseteq memIds => id \in memIds
    /\ noDeletion(pre.mon, Ids) /\ touchedInMem \cap touchedOnDisk = {}
         => conflictChanges = empty

\* the ids of the objects in the in-memory lists: the members of the lists
\* and what they hold (children, notes, attachments, efforts)
listed ==
  LET RECURSIVE reach(_)
      reach(S) ==
        LET S1 == S \cup UNION {SeqToSet(heap[x].children) \cup SeqToSet(heap[x].notes)
                                \cup SeqToSet(heap[x].attachments)
                                \cup SeqToSet(heap[x].efforts) : x \in S}
        IN IF S1 = S THEN S ELSE reach(S1)
  IN {IdOf(o) : o \in reach(UNION {memLists[L] : L \in SeqToSet(ListKinds)})}

\* C18 (New baseline after merge): when sync() has returned, the local
\* monitor's record is the empty set for every object in the merged in-memory
\* lists, and the monitor holds no record for any other id.
NewBaseline ==
  syncReturned =>
    \A id \in Ids : monitor[id] = (IF id \in listed THEN {} ELSE NoRec)

\* a merge returned that found pending local changes on an object it kept
\* and a record of an object that is gone
NewBaselineWitness ==
  /\ syncReturned
  /\ \E id \in listed : pre.mon[id] \notin {NoRec, {}} /\ monitor[id] = {}
  /\ \E id \in Ids \ listed : pre.mon[id] # NoRec /\ monitor[id] = NoRec

MaxMerges == 3

\* the records a change set holds for an id: none, empty, attribute names,
\* or the deletion
Records == {NoRec, {}, {SUBJECT}, {PARENT}, {SUBJECT, PARENT}, {DEL}}

\* a change set with records for two ids
changeSet(r1, r2) ==
  [id \in Ids |-> IF id = "t1" THEN r1 ELSE IF id = "t2" THEN r2 ELSE NoRec]

\* the change sets sync() merges: the local monitor or conflictChanges
source(name) == IF name = "monitor" THEN monitor ELSE conflictChanges

\* A's monitor, the conflictChanges of a sync() and the record of device B
\* are any change sets; A's own record is its monitor (sync.py:60)
ChangesInit ==
  /\ \E r1 \in Records, r2 \in {NoRec, {DEL}} : monitor = changeSet(r1, r2)
  /\ \E r1 \in {NoRec, {SUBJECT}, {DEL}}, r2 \in {NoRec, {PARENT}} :
       conflictChanges = changeSet(r1, r2)
  /\ \E r1 \in Records, r2 \in {NoRec, {SUBJECT}} :
       allChanges = [g \in Guids |-> IF g = ThisGuid THEN monitor
                                     ELSE changeSet(r1, r2)]
  /\ heap = [o \in Insts |-> IF o[1] \in {"m", "f"} THEN BaseObject(o[1], o[2])
                             ELSE Blank]
  /\ memLists = BaseLists("m")
  /\ fileLists = BaseLists("f")
  /\ nedits = 0
  /\ nsync = 0
  /\ syncErr = ""
  /\ pre = [first |-> allChanges, applied |-> [g \in Guids |-> {}],
            last |-> [g |-> ThisGuid, src |-> "monitor"], before |-> allChanges,
            n |-> 0]
  /\ files = FilesAtRest(FALSE)
  /\ taskFile = TaskFileAtRest
  /\ Unwatched

\* "changes.merge(other)" for the record of device g
merged(g, name) ==
  /\ pre.n < MaxMerges
  /\ g # ThisGuid
  /\ allChanges' = [allChanges EXCEPT ![g] = merge(@, source(name))]
  /\ pre' = [pre EXCEPT !.applied[g] = @ \cup {name},
                        !.last = [g |-> g, src |-> name],
                        !.before = allChanges, !.n = @ + 1]
  /\ UNCHANGED <<heap, memLists, fileLists, monitor, conflictChanges, nedits,
                 nsync, syncErr, files, taskFile>>
  /\ UNCHANGED watch

\* "changes.merge(self._monitor)" of sync() and of mergeDiskChanges()
MergeMonitor(g) == merged(g, "monitor")

\* "changes.merge(self.conflictChanges)" of sync()
MergeConflicts(g) == merged(g, "conflictChanges")

ChangesNext ==
  \/ \E g \in Guids : MergeMonitor(g)
  \/ \E g \in Guids : MergeConflicts(g)

ChangesSpec == ChangesInit /\ [][ChangesNext]_vars

\* C16 (ChangeMonitor.merge is a per-id set union in which deletion absorbs):
\* after a merge into the record of a device, for every id the record is the
\* one record that was there when only one side had one, {__del__} when both
\* had one and either held __del__, and the union of the two otherwise; the
\* records of the other devices are as before.
MergeIsUnion ==
  pre.n >= 1 =>
    LET g == pre.last.g
        mine == pre.before[g]
        theirs == source(pre.last.src)
        now == allChanges[g]
    IN /\ \A id \in Ids :
            /\ theirs[id] = NoRec => now[id] = mine[id]
            /\ mine[id] = NoRec => now[id] = theirs[id]
            /\ mine[id] # NoRec /\ theirs[id] # NoRec =>
                 /\ DEL \in mine[id] \cup theirs[id] => now[id] = {DEL}
                 /\ DEL \notin mine[id] \cup theirs[id] =>
                      \A name \in {SUBJECT, PARENT, OWNER} :
                        name \in now[id] <=> name \in mine[id] \/ name \in theirs[id]
       /\ \A d \in Guids \ {g} : allChanges[d] = pre.before[d]

\* a merge in which one id got the union of two different records and
\* another id lost its names to __del__
MergeIsUnionWitness ==
  /\ pre.n >= 1
  /\ \E id \in Ids :
       /\ pre.before[pre.last.g][id] = {SUBJECT}
       /\ source(pre.last.src)[id] = {PARENT}
       /\ allChanges[pre.last.g][id] = {SUBJECT, PARENT}
  /\ \E id \in Ids :
       /\ pre.before[pre.last.g][id] = {SUBJECT}
       /\ source(pre.last.src)[id] = {DEL}
       /\ allChanges[pre.last.g][id] = {DEL}

\* the change sets with the names in S merged into cs, monitor first
mergedInOrder(cs, S) ==
  LET cs1 == IF "monitor" \in S THEN merge(cs, monitor) ELSE cs
  IN IF "conflictChanges" \in S THEN merge(cs1, conflictChanges) ELSE cs1

\* C17 (Merging change sets is idempotent and order-independent): the record
\* of a device depends only on what it was and on which change sets were
\* merged into it, not on how often or in which order they were merged.
MergeOrderIndependent ==
  \A g \in Guids : allChanges[g] = mergedInOrder(pre.first[g], pre.applied[g])

\* conflictChanges, then the monitor, then the monitor again were merged into
\* a record, and each of them added to it
MergeOrderIndependentWitness ==
  /\ pre.n = MaxMerges
  /\ pre.applied[OtherGuid] = {"monitor", "conflictChanges"}
  /\ pre.last.src = "monitor"
  /\ pre.before[OtherGuid] = allChanges[OtherGuid]
  /\ allChanges[OtherGuid] # merge(pre.first[OtherGuid], monitor)
  /\ allChanges[OtherGuid] # merge(pre.first[OtherGuid], conflictChanges)

\* ------------------------------------------ LockedTaskFile, SafeWriteFile
\* Calls this process makes on its LockedTaskFile.
MaxCalls == 2
\* Saves the other process makes.
MaxOtherSaves == 1
\* self.__lock.acquire(5): seconds until acquire() gives up
AcquireTimeout == 5

\* the variables of the object graph and of the merge
graph == <<heap, memLists, fileLists, monitor, allChanges, conflictChanges,
           nedits, nsync, syncErr, pre>>

\* LockedTaskFile.is_locked: there is a lock object and the lock file exists
is_locked == taskFile.lockObj /\ files.lock # "none"

\* LockedTaskFile.is_locked_by_me
is_locked_by_me == is_locked /\ files.lock = "me"

\* the calls: load(lock, breakLock), save() with the need-save flag set or
\* not, mergeDiskChanges()
Calls ==
  {[op |-> "load", lock |-> l, breakLock |-> b, needSave |-> FALSE] :
     l \in BOOLEAN, b \in BOOLEAN}
  \cup {[op |-> "save", lock |-> TRUE, breakLock |-> FALSE, needSave |-> n] :
          n \in BOOLEAN}
  \cup {[op |-> "merge", lock |-> TRUE, breakLock |-> FALSE, needSave |-> FALSE]}

\* the first statement of a call that changes anything
firstStatement(c) ==
  CASE c.op = "load" -> IF ~c.lock THEN "load.read"
                        ELSE IF c.breakLock THEN "load.break" ELSE "load.acquire"
    [] c.op = "save" -> "save.acquire"
    [] c.op = "merge" -> "merge.acquire"

\* the statement after self.acquire_lock(...) in load, save, mergeDiskChanges
\* and in the mergeDiskChanges that TaskFile.save calls
afterAcquire(pc) ==
  CASE pc = "load.acquire" -> "load.read"
    [] pc = "save.acquire" -> "save.merge.acquire"
    [] pc = "merge.acquire" -> "merge.read"
    [] pc = "save.merge.acquire" -> "save.merge.read"

\* a faulty caller of acquire_lock that goes on after the timeout
afterTimeoutIgnored(pc) == afterAcquire(pc)

\* where the exception of acquire_lock goes: in load the acquisition is
\* inside the try, in save and mergeDiskChanges before it
afterTimeout(pc) ==
  CASE pc = "load.acquire" -> "load.release"
    [] pc = "save.acquire" -> "idle"
    [] pc = "merge.acquire" -> "idle"
    [] pc = "save.merge.acquire" -> "save.release"

\* the statement after the finally-clause self.release_lock()
afterRelease(tf, mainKind) ==
  IF tf.pc # "save.merge.release" THEN "idle"
  ELSE IF tf.exc # "" THEN "save.release"
  ELSE IF tf.needSave THEN "save.open"
  ELSE IF mainKind = "missing" THEN "save.open"
  ELSE "save.release"

\* the call is at statement pc, or has ended when pc is "idle"
goesTo(tf, pc) ==
  IF pc = "idle"
  THEN [tf EXCEPT !.pc = "idle", !.result = IF tf.exc = "" THEN "ok" ELSE tf.exc]
  ELSE [tf EXCEPT !.pc = pc]

did(tf, what) == [tf EXCEPT !.touched = @ \cup what]

running(pcs) == ~taskFile.crashed /\ taskFile.pc \in pcs

\* this process calls load, save or mergeDiskChanges
Call(c) ==
  /\ running({"idle"})
  /\ taskFile.calls < MaxCalls
  /\ taskFile' = [taskFile EXCEPT !.pc = firstStatement(c), !.op = c.op,
                                  !.lock = c.lock, !.breakLock = c.breakLock,
                                  !.needSave = c.needSave, !.waited = 0,
                                  !.exc = "", !.result = "", !.touched = {},
                                  !.calls = @ + 1]
  /\ UNCHANGED files
  /\ UNCHANGED graph
  /\ UNCHANGED watch

\* LockedTaskFile.break_lock: the lock file goes, whoever holds it
BreakLock ==
  /\ running({"load.break"})
  /\ files' = [files EXCEPT !.lock = "none"]
  /\ taskFile' = [did(taskFile, IF files.lock = "other" THEN {"break"} ELSE {})
                    EXCEPT !.pc = "load.acquire", !.lockObj = TRUE]
  /\ UNCHANGED graph
  /\ UNCHANGED watch

lockPcs == {"load.acquire", "save.acquire", "merge.acquire", "save.merge.acquire"}

\* LockedTaskFile.acquire_lock, when it does not have to wait
AcquireLock ==
  /\ running(lockPcs)
  /\ IF is_locked_by_me
     THEN /\ files' = files
          /\ taskFile' = [taskFile EXCEPT !.pc = afterAcquire(taskFile.pc)]
     ELSE /\ files.lock = "none"
          /\ files' = [files EXCEPT !.lock = "me"]
          /\ taskFile' = [taskFile EXCEPT !.pc = afterAcquire(taskFile.pc),
                                          !.lockObj = TRUE]
  /\ UNCHANGED graph
  /\ UNCHANGED watch

\* acquire(5) finds the lock held and waits another second
WaitForLock ==
  /\ running(lockPcs)
  /\ ~is_locked_by_me
  /\ files.lock # "none"
  /\ taskFile.waited < AcquireTimeout
  /\ taskFile' = [taskFile EXCEPT !.waited = @ + 1, !.lockObj = TRUE]
  /\ UNCHANGED files
  /\ UNCHANGED graph
  /\ UNCHANGED watch

\* acquire(5) gives up: LockTimeout leaves acquire_lock
LockTimeout ==
  /\ running(lockPcs)
  /\ ~is_locked_by_me
  /\ files.lock # "none"
  /\ taskFile.waited = AcquireTimeout
  /\ taskFile' = goesTo([taskFile EXCEPT !.exc = "LockTimeout", !.lockObj = TRUE],
                        afterTimeout(taskFile.pc))
  /\ UNCHANGED files
  /\ UNCHANGED graph
  /\ UNCHANGED watch

\* TaskFile.load up to the writing of the sidecar: the lists are cleared and
\* filled with what the file holds, the monitor starts afresh
LoadFile ==
  LET ids == objectIds(heap, fileLists)
      mon == [id \in Ids |-> IF id \in ids THEN {} ELSE NoRec]
      tf == did(taskFile, {"read", "mem"})
  IN /\ running({"load.read"})
     /\ IF files.main.kind = "complete"
        THEN /\ heap' = read(heap, "m")
             /\ memLists' = readLists("m")
             /\ monitor' = mon
             /\ allChanges' = [allChanges EXCEPT ![ThisGuid] = mon]
             /\ taskFile' = [tf EXCEPT !.pc = "load.delta"]
        ELSE IF files.main.kind = "missing"
        THEN /\ memLists' = [L \in SeqToSet(ListKinds) |-> {}]
             /\ monitor' = empty
             /\ allChanges' = [g \in Guids |-> empty]
             /\ taskFile' = [tf EXCEPT !.pc = "load.release"]
             /\ UNCHANGED heap
        ELSE /\ taskFile' = [tf EXCEPT !.pc = "load.release", !.exc = "ParseError"]
             /\ UNCHANGED <<heap, memLists, monitor, allChanges>>
     /\ UNCHANGED <<fileLists, conflictChanges, nedits, nsync, syncErr, pre, files>>
     /\ UNCHANGED watch

\* TaskFile.mergeDiskChanges up to the writing of the sidecar: the file is
\* read and merged with sync()
MergeDisk(ord) ==
  LET tf == did(taskFile, {"read", "mem"})
      inSave == taskFile.pc = "save.merge.read"
      delta == IF inSave THEN "save.merge.delta" ELSE "merge.delta"
      release == IF inSave THEN "save.merge.release" ELSE "merge.release"
  IN /\ running({"merge.read", "save.merge.read"})
     /\ nsync < MaxSyncs
     /\ IF files.main.kind = "complete"
        THEN /\ synced(ord)
             /\ taskFile' = IF syncErr' = "" THEN [tf EXCEPT !.pc = delta]
                            ELSE [tf EXCEPT !.pc = release, !.exc = syncErr']
        ELSE IF files.main.kind = "missing"
        THEN /\ taskFile' = [did(taskFile, {}) EXCEPT !.pc = delta]
             /\ UNCHANGED graph
        ELSE /\ taskFile' = [tf EXCEPT !.pc = release, !.exc = "ParseError"]
             /\ UNCHANGED graph
     /\ UNCHANGED files
     /\ UNCHANGED watch

\* the sidecar with the change table is written
WriteDelta ==
  /\ running({"load.delta", "merge.delta", "save.merge.delta"})
  /\ files' = [files EXCEPT !.delta = @ + 1]
  /\ taskFile' = [did(taskFile, {"delta"}) EXCEPT
                    !.pc = CASE taskFile.pc = "load.delta" -> "load.release"
                             [] taskFile.pc = "merge.delta" -> "merge.release"
                             [] taskFile.pc = "save.merge.delta" -> "save.merge.release"]
  /\ UNCHANGED graph
  /\ UNCHANGED watch

\* LockedTaskFile.release_lock in the finally clause of load, save and
\* mergeDiskChanges
ReleaseLock ==
  /\ running({"load.release", "merge.release", "save.merge.release", "save.release"})
  /\ files' = IF is_locked_by_me THEN [files EXCEPT !.lock = "none"] ELSE files
  /\ taskFile' = goesTo(did(taskFile, IF is_locked_by_me THEN {"unlock"} ELSE {}),
                        afterRelease(taskFile, files.main.kind))
  /\ UNCHANGED graph
  /\ UNCHANGED watch

\* SafeWriteFile.__init__: open(..., "wb") on the target in a cloud-synced
\* directory, on a temporary file elsewhere
OpenForWrite ==
  /\ running({"save.open"})
  /\ files' = IF files.cloud
              THEN [files EXCEPT !.main = Content("truncated", files.main.ver)]
              ELSE [files EXCEPT !.temp = Content("truncated", files.temp.ver)]
  /\ taskFile' = [did(taskFile, {"write"}) EXCEPT !.pc = "save.write"]
  /\ UNCHANGED graph
  /\ UNCHANGED watch

\* SafeWriteFile.write: part of the XML is in the open file
Write ==
  /\ running({"save.write"})
  /\ files' = IF files.cloud
              THEN [files EXCEPT !.main = Content("partial", files.main.ver)]
              ELSE [files EXCEPT !.temp = Content("partial", files.temp.ver)]
  /\ taskFile' = [taskFile EXCEPT !.pc = "save.close"]
  /\ UNCHANGED graph
  /\ UNCHANGED watch

\* SafeWriteFile.close: self.__fd.close(), the open file is complete
CloseFile ==
  /\ running({"save.close"})
  /\ files' = IF files.cloud
              THEN [files EXCEPT !.main = Content("complete", files.ver + 1),
                                 !.ver = @ + 1]
              ELSE [files EXCEPT !.temp = Content("complete", files.ver + 1),
                                 !.ver = @ + 1]
  /\ taskFile' = [taskFile EXCEPT
                    !.pc = IF files.cloud THEN "save.release"
                           ELSE IF files.main.kind = "missing" THEN "save.rename"
                           ELSE "save.remove"]
  /\ UNCHANGED graph
  /\ UNCHANGED watch

\* SafeWriteFile.close: os.remove(self.__filename)
RemoveTarget ==
  /\ running({"save.remove"})
  /\ files' = [files EXCEPT !.main = Content("missing", 0)]
  /\ taskFile' = [taskFile EXCEPT !.pc = "save.rename"]
  /\ UNCHANGED graph
  /\ UNCHANGED watch

\* SafeWriteFile.close: os.rename(self.__tempFilename, self.__filename), after
\* a file that appeared at the target meanwhile was moved out of the way
RenameTemp ==
  /\ running({"save.rename"})
  /\ files' = [files EXCEPT !.main = files.temp, !.temp = Content("missing", 0)]
  /\ taskFile' = [taskFile EXCEPT !.pc = "save.release"]
  /\ UNCHANGED graph
  /\ UNCHANGED watch

\* the process dies in the middle of a call
Crash ==
  /\ running({"load.break", "load.read", "load.delta", "load.release",
              "merge.read", "merge.delta", "merge.release",
              "save.merge.acquire", "save.merge.read", "save.merge.delta",
              "save.merge.release", "save.open", "save.write", "save.close",
              "save.remove", "save.rename", "save.release"} \cup lockPcs)
  /\ taskFile' = [taskFile EXCEPT !.crashed = TRUE]
  /\ UNCHANGED files
  /\ UNCHANGED graph
  /\ UNCHANGED watch

\* another process takes the lock
OtherAcquire ==
  /\ files.lock = "none"
  /\ files' = [files EXCEPT !.lock = "other"]
  /\ UNCHANGED taskFile
  /\ UNCHANGED graph
  /\ UNCHANGED watch

\* the other process releases its lock
OtherRelease ==
  /\ files.lock = "other"
  /\ files' = [files EXCEPT !.lock = "none"]
  /\ UNCHANGED taskFile
  /\ UNCHANGED graph
  /\ UNCHANGED watch

\* the other process, holding the lock, saves a file it could read
OtherSave ==
  /\ files.lock = "other"
  /\ files.otherSaves < MaxOtherSaves
  /\ files.main.kind \in {"complete", "missing"}
  /\ files' = [files EXCEPT !.main = Content("complete", files.ver + 1),
                            !.ver = @ + 1, !.otherSaves = @ + 1]
  /\ UNCHANGED taskFile
  /\ UNCHANGED graph
  /\ UNCHANGED watch

FileInit ==
  /\ Loaded
  /\ \E cloud \in BOOLEAN : files = FilesAtRest(cloud)
  /\ taskFile = TaskFileAtRest
  /\ Unwatched

FileNext ==
  \/ \E c \in Calls : Call(c)
  \/ BreakLock
  \/ AcquireLock
  \/ WaitForLock
  \/ LockTimeout
  \/ LoadFile
  \/ \E ord \in Orders : MergeDisk(ord)
  \/ WriteDelta
  \/ ReleaseLock
  \/ OpenForWrite
  \/ Write
  \/ CloseFile
  \/ RemoveTarget
  \/ RenameTemp
  \/ Crash
  \/ OtherAcquire
  \/ OtherRelease
  \/ OtherSave

FileSpec == FileInit /\ [][FileNext]_vars

\* ----------------------------------------------- the file: properties
\* C8 (Crash-safe save): at every step of writing the main file, in
\* cloud-synced and ordinary directories alike, the target path holds the
\* complete previous or the complete new content; a crash never leaves it
\* missing, truncated or partially written.
CrashSafeSave == files.main.kind = "complete"

\* save() between the reading of the file for the merge and the end of the
\* writing of the main file
mergingOrWriting ==
  taskFile.pc \in {"save.merge.read", "save.merge.delta", "save.merge.release",
                   "save.open", "save.write", "save.close", "save.remove",
                   "save.rename"}

\* C9 (Lock held across the whole save): during LockedTaskFile.save() this
\* process holds the lock from before the file is read for merging until
\* after the main file has been written.
LockHeldAcrossSave == mergingOrWriting => files.lock = "me"

timedOut == taskFile.pc = "idle" /\ taskFile.result = "LockTimeout"

\* C10 (Lock timeout is a clean failure), as the code has it: acquire waits
\* no longer than the timeout; load() without breakLock, save() and
\* mergeDiskChanges() that end with the lock timeout have read and written
\* neither the task file nor its sidecar, have not changed the in-memory
\* graph and have not released or broken a lock.
LockTimeoutClean ==
  /\ taskFile.waited <= AcquireTimeout
  /\ timedOut /\ ~(taskFile.op = "load" /\ taskFile.breakLock)
       => taskFile.touched = {} /\ taskFile.waited = AcquireTimeout

LockTimeoutCleanWitness ==
  /\ timedOut
  /\ taskFile.op = "save"
  /\ taskFile.touched = {}
  /\ files.lock = "other"

\* C10 as stated: for every load(), with breakLock too.
LockTimeoutCleanAsStated == timedOut => taskFile.touched = {}

\* ------------------------------------------- TaskFile and its file watcher
\* Number of times another process writes the watched file
MaxWrites == 1

\* the task the user of this process edits during the session
SessionIds == {"t1"}

\* ChangeMonitor.freeze: one more freeze() to be matched
freeze(f) == [f EXCEPT !.depth = @ + 1, !.freezes = @ + 1]

\* a faulty thaw() that resumes recording whatever the number of freeze()
\* calls before it
thawAll(f) == [f EXCEPT !.depth = 0, !.thaws = @ + 1]

\* ChangeMonitor.thaw: the last freeze() is matched
thaw(f) == [f EXCEPT !.depth = @ - 1, !.thaws = @ + 1]

\* whether the monitor records the mutation events it receives
isFrozen(f) == f.depth > 0

\* NotifierBase.setFilename and NotifierBase.saved: the stamp is the file's
\* modification time, or None when there is no filename or no file
stamped(named, file) == IF named /\ file.exists THEN file.mtime ELSE NoStamp

\* FilesystemPollerNotifier.setFilename and saved block on self.lock
lockFree == notifier.lock = "none"

\* the main thread is at one of the statements pcs
at(pcs) == session.pc \in pcs

\* the main thread goes on to statement pc; back to idle the call has ended
next(s, pc) ==
  IF pc = "idle"
  THEN [s EXCEPT !.pc = "idle", !.exc = "",
                 !.result = IF s.exc = "" THEN s.op ELSE s.exc]
  ELSE [s EXCEPT !.pc = pc]

SessionOps == {"load", "save", "mergeDiskChanges"}

firstStep(op) ==
  CASE op = "load" -> "load.setFilename"
    [] op = "save" -> "save.saving"
    [] op = "mergeDiskChanges" -> "merge.loading"

\* what the session leaves alone: the other process, the lock file
idleFiles == UNCHANGED <<files, taskFile>>

graphOnly == <<heap, memLists, fileLists, monitor, allChanges, conflictChanges,
               nedits, nsync, syncErr, pre>>

\* the user asks for load, save or mergeDiskChanges; save and
\* mergeDiskChanges need a filename
SessionCall(op) ==
  /\ at({"idle"})
  /\ session.calls < MaxCalls
  /\ ~notifier.cancelled
  /\ op # "load" => session.filename
  /\ session' = [session EXCEPT !.pc = firstStep(op), !.op = op, !.exc = "",
                                !.calls = @ + 1]
  /\ UNCHANGED <<apart, iphone, notifier, frozen>>
  /\ UNCHANGED graphOnly
  /\ idleFiles

\* TaskFile.load: self.__loading = True, then setFilename, which tells the
\* notifier unless the filename is the one already set
LoadSetFilename ==
  /\ at({"load.setFilename"})
  /\ session.filename \/ lockFree
  /\ session' = [session EXCEPT !.pc = "load.read", !.loading = TRUE,
                                !.filename = TRUE]
  /\ notifier' = IF session.filename THEN notifier
                 ELSE [notifier EXCEPT !.filename = TRUE,
                                       !.stamp = stamped(TRUE, session.file)]
  /\ UNCHANGED <<apart, iphone, frozen>>
  /\ UNCHANGED graphOnly
  /\ idleFiles

\* the objects of memory written to the file
written(h, ml) ==
  LET objs == memObjects(h, ml)
  IN [o \in Insts |->
        IF o[1] # "f" THEN h[o]
        ELSE IF \E x \in objs : IdOf(x) = o[2]
        THEN readObject("f", h[CHOOSE x \in objs : IdOf(x) = o[2]])
        ELSE Blank]

writtenLists(ml) == [L \in SeqToSet(ListKinds) |-> {rename("f", o) : o \in ml[L]}]

\* what self._read(fd) raises on a file it cannot read: the file is of a
\* newer format, or it does not parse
ReadErrors == {"XMLReaderTooNewException", "ParseError"}

\* a faulty load that clears the lists before it reads the file
listsClearedFirst(ml, new, failed) ==
  IF failed THEN [L \in SeqToSet(ListKinds) |-> {}] ELSE new

\* the lists at the end of the try block of load: self._read(fd) comes
\* before self.clear(), so a read that fails leaves them as they were
listsAfterRead(ml, new, failed) == IF failed THEN ml ELSE new

\* TaskFile.load from the read to the writing of the sidecar: the lists are
\* cleared and filled with what the file holds, the monitor starts afresh;
\* without a file the graph is empty
LoadRead ==
  LET ids == objectIds(heap, fileLists)
      mon == [id \in Ids |-> IF id \in ids THEN {} ELSE NoRec]
  IN /\ at({"load.read"})
     /\ IF session.file.exists /\ session.file.valid
        THEN /\ heap' = read(heap, "m")
             /\ memLists' = listsAfterRead(memLists, readLists("m"), FALSE)
             /\ monitor' = mon
             /\ allChanges' = [allChanges EXCEPT ![ThisGuid] = mon]
             /\ files' = [files EXCEPT !.delta = @ + 1]
             /\ session' = [session EXCEPT !.pc = "load.finally", !.found = TRUE,
                                           !.own = "monitor", !.pending = FALSE]
        ELSE IF ~session.file.exists
        THEN /\ memLists' = listsAfterRead(memLists, [L \in SeqToSet(ListKinds) |-> {}],
                                          FALSE)
             /\ monitor' = empty
             /\ allChanges' = [g \in Guids |-> empty]
             /\ session' = [session EXCEPT !.pc = "load.finally", !.found = FALSE,
                                           !.own = "monitor"]
             /\ UNCHANGED <<heap, files>>
        ELSE /\ \E e \in ReadErrors :
                  session' = [session EXCEPT !.pc = "load.except", !.found = TRUE,
                                             !.exc = e]
             /\ memLists' = listsAfterRead(memLists, readLists("m"), TRUE)
             /\ UNCHANGED <<heap, monitor, allChanges, files>>
     /\ UNCHANGED <<fileLists, conflictChanges, nedits, nsync, syncErr, pre>>
     /\ UNCHANGED <<apart, iphone, notifier, frozen, taskFile>>

\* the except clause of load: self.setFilename("")
LoadExcept ==
  /\ at({"load.except"})
  /\ lockFree
  /\ session' = [session EXCEPT !.pc = "load.finally", !.filename = FALSE]
  /\ notifier' = [notifier EXCEPT !.filename = FALSE,
                                  !.stamp = stamped(FALSE, session.file)]
  /\ UNCHANGED <<apart, iphone, frozen>>
  /\ UNCHANGED graphOnly
  /\ idleFiles

\* a faulty end of load that leaves the changed-on-disk flag as it is
justReadFlagged(s) == [s EXCEPT !.loading = FALSE, !.needSave = FALSE]

\* the finally clause of load: self.__loading = False, markClean(),
\* self.__changedOnDisk = False
justRead(s) ==
  [s EXCEPT !.loading = FALSE, !.needSave = FALSE, !.changedOnDisk = FALSE]

LoadFinally ==
  /\ at({"load.finally"})
  /\ session' = next(justRead(session), "idle")
  /\ UNCHANGED <<apart, iphone, notifier, frozen>>
  /\ UNCHANGED graphOnly
  /\ idleFiles

\* TaskFile.save: self.__saving = True, then mergeDiskChanges
SaveSaving ==
  /\ at({"save.saving"})
  /\ session' = [session EXCEPT !.pc = "merge.loading", !.saving = TRUE]
  /\ UNCHANGED <<apart, iphone, notifier, frozen>>
  /\ UNCHANGED graphOnly
  /\ idleFiles

\* mergeDiskChanges: self.__loading = True; with a file the monitor is
\* frozen, without one the table holds this device's monitor only
MergeLoading ==
  /\ at({"merge.loading"})
  /\ IF session.file.exists
     THEN /\ session' = [session EXCEPT !.pc = "merge.read", !.loading = TRUE]
          /\ frozen' = freeze(frozen)
          /\ UNCHANGED allChanges
     ELSE /\ session' = [session EXCEPT !.pc = "merge.reset", !.loading = TRUE,
                                        !.own = "monitor"]
          /\ allChanges' = [g \in Guids |-> IF g = ThisGuid THEN monitor ELSE empty]
          /\ UNCHANGED frozen
  /\ UNCHANGED <<heap, memLists, fileLists, monitor, conflictChanges,
                 nedits, nsync, syncErr, pre>>
  /\ UNCHANGED <<apart, iphone, notifier>>
  /\ idleFiles

\* a faulty mergeDiskChanges whose thaw() is skipped when the read or the
\* merge raises
afterReadUnthawed(exc) == IF exc = "" THEN "merge.thaw" ELSE "merge.finally"

\* the try ... finally around the read and the merge: thaw() comes next
\* whether they raise or not
afterRead(exc) == "merge.thaw"

\* mergeDiskChanges: the file is read and merged with sync(); a file that
\* does not parse and a sync() that raises leave through the finally
\* clauses, the latter with the table just read in self.__changes
MergeRead(ord) ==
  /\ at({"merge.read"})
  /\ nsync < MaxSyncs
  /\ IF session.file.valid
     THEN /\ synced(ord)
          /\ session' = [session EXCEPT
                           !.pc = afterRead(syncErr'), !.exc = syncErr',
                           !.own = IF syncErr' = "" THEN "monitor" ELSE "file",
                           !.pending = @ /\ syncErr' # ""]
     ELSE /\ session' = [session EXCEPT !.pc = afterRead("ParseError"),
                                        !.exc = "ParseError"]
          /\ UNCHANGED graphOnly
  /\ UNCHANGED <<apart, iphone, notifier, frozen>>
  /\ idleFiles

\* the finally clause of the inner try: self.__monitor.thaw()
MergeThaw ==
  /\ at({"merge.thaw"})
  /\ frozen' = thaw(frozen)
  /\ session' = [session EXCEPT
                   !.pc = IF session.exc = "" THEN "merge.reset" ELSE "merge.finally"]
  /\ UNCHANGED <<apart, iphone, notifier>>
  /\ UNCHANGED graphOnly
  /\ idleFiles

\* resetAllChanges, the sidecar, self.__changedOnDisk = False
MergeReset ==
  LET mon == resetAllChanges(monitor)
  IN /\ at({"merge.reset"})
     /\ monitor' = mon
     /\ allChanges' = [allChanges EXCEPT ![ThisGuid] = mon]
     /\ files' = [files EXCEPT !.delta = @ + 1]
     /\ session' = [session EXCEPT !.pc = "merge.finally", !.changedOnDisk = FALSE]
     /\ UNCHANGED <<heap, memLists, fileLists, conflictChanges, nedits, nsync,
                    syncErr, pre>>
     /\ UNCHANGED <<apart, iphone, notifier, frozen, taskFile>>

\* the finally clause of mergeDiskChanges: self.__loading = False; save
\* goes on with the write unless the merge raised
MergeFinally ==
  /\ at({"merge.finally"})
  /\ session' = LET s == [session EXCEPT !.loading = FALSE]
                IN IF session.op = "mergeDiskChanges" THEN next(s, "idle")
                   ELSE IF session.exc = "" THEN next(s, "save.write")
                   ELSE next(s, "save.finally")
  /\ UNCHANGED <<apart, iphone, notifier, frozen>>
  /\ UNCHANGED graphOnly
  /\ idleFiles

\* the file after this process has written it
ownWrite(file) == [file EXCEPT !.exists = TRUE, !.valid = TRUE, !.mtime = @ + 1]

\* save writes when there is something to save or no file: in a cloud-synced
\* directory straight to the file, elsewhere to a temporary file, after which
\* SafeWriteFile.close removes the file; then markClean()
SaveWrite ==
  LET must == session.needSave \/ ~session.file.exists
  IN /\ at({"save.write"})
     /\ IF ~must
        THEN /\ session' = [session EXCEPT !.pc = "save.finally", !.needSave = FALSE]
             /\ UNCHANGED <<heap, fileLists>>
        ELSE IF session.file.cloud \/ ~session.file.exists
        THEN /\ session' = [session EXCEPT !.pc = "save.finally", !.needSave = FALSE,
                                           !.file = ownWrite(@)]
             /\ heap' = written(heap, memLists)
             /\ fileLists' = writtenLists(memLists)
        ELSE /\ session' = [session EXCEPT !.pc = "save.rename",
                                           !.file = [@ EXCEPT !.exists = FALSE]]
             /\ UNCHANGED <<heap, fileLists>>
     /\ UNCHANGED <<memLists, monitor, allChanges, conflictChanges, nedits,
                    nsync, syncErr, pre>>
     /\ UNCHANGED <<apart, iphone, notifier, frozen>>
     /\ idleFiles

\* SafeWriteFile.close renames the temporary file to the file; then
\* markClean()
SaveRename ==
  /\ at({"save.rename"})
  /\ session' = [session EXCEPT !.pc = "save.finally", !.needSave = FALSE,
                                !.file = ownWrite(@)]
  /\ heap' = written(heap, memLists)
  /\ fileLists' = writtenLists(memLists)
  /\ UNCHANGED <<memLists, monitor, allChanges, conflictChanges, nedits,
                 nsync, syncErr, pre>>
  /\ UNCHANGED <<apart, iphone, notifier, frozen>>
  /\ idleFiles

\* the finally clause of save, first statement: self.__saving = False
SaveFinally ==
  /\ at({"save.finally"})
  /\ session' = [session EXCEPT !.pc = "save.saved", !.saving = FALSE]
  /\ UNCHANGED <<apart, iphone, notifier, frozen>>
  /\ UNCHANGED graphOnly
  /\ idleFiles

\* the finally clause of save, second statement: self.__notifier.saved()
SaveSaved ==
  /\ at({"save.saved"})
  /\ lockFree
  /\ notifier' = [notifier EXCEPT !.stamp = stamped(notifier.filename, session.file)]
  /\ session' = next(session, "idle")
  /\ UNCHANGED <<apart, iphone, frozen>>
  /\ UNCHANGED graphOnly
  /\ idleFiles

\* TaskFile.stop: the notifier is cancelled and its thread joined
Stop ==
  /\ at({"idle"})
  /\ ~notifier.cancelled
  /\ session.calls > 0
  /\ notifier' = [notifier EXCEPT !.cancelled = TRUE]
  /\ session' = [session EXCEPT !.pc = "stop.join", !.op = "stop"]
  /\ UNCHANGED <<apart, iphone, frozen>>
  /\ UNCHANGED graphOnly
  /\ idleFiles

Join ==
  /\ at({"stop.join"})
  /\ notifier.pc \in {"done", "dead"}
  /\ session' = next(session, "idle")
  /\ UNCHANGED <<apart, iphone, notifier, frozen>>
  /\ UNCHANGED graphOnly
  /\ idleFiles

\* the monitor receives the event that attribute name of object id has
\* changed: it records the change unless it is frozen
notified(id, name) ==
  IF isFrozen(frozen)
  THEN /\ frozen' = [frozen EXCEPT !.dropped = @ + 1]
       /\ UNCHANGED monitor
  ELSE /\ monitor' = recordChange(monitor, id, name)
       /\ UNCHANGED frozen

\* the user changes the subject of a task: the monitor records the change
\* unless it is frozen, onTaskChanged marks the file dirty unless it is
\* loading or saving
ChangeTask(id, v) ==
  LET o == CHOOSE x \in memObjects(heap, memLists) : IdOf(x) = id
  IN /\ at({"idle"})
     /\ nedits < MaxEdits
     /\ \E x \in memObjects(heap, memLists) : IdOf(x) = id
     /\ monitor[id] # NoRec
     /\ heap[o].subject # v
     /\ heap' = [heap EXCEPT ![o].subject = v]
     /\ nedits' = nedits + 1
     /\ notified(id, SUBJECT)
     /\ session' = IF session.loading \/ session.saving THEN session
                   ELSE [session EXCEPT !.needSave = TRUE]
     /\ UNCHANGED <<memLists, fileLists, allChanges, conflictChanges, nsync,
                    syncErr, pre>>
     /\ UNCHANGED <<apart, iphone, notifier>>
     /\ idleFiles

\* ---- the poller thread
\* run(): the loop ends when the notifier is cancelled; otherwise the lock
\* is taken and "self._filename and os.path.exists(self._filename)" decides
\* whether to look at the file; evt.wait(10) follows the release
Poll ==
  /\ notifier.pc = "wait"
  /\ IF notifier.cancelled
     THEN notifier' = [notifier EXCEPT !.pc = "done"]
     ELSE /\ lockFree
          /\ notifier' = IF notifier.filename /\ session.file.exists
                         THEN [notifier EXCEPT !.pc = "stat", !.lock = "poller"]
                         ELSE notifier
  /\ notifier' # notifier
  /\ UNCHANGED <<apart, iphone, session, frozen>>
  /\ UNCHANGED graphOnly
  /\ idleFiles

\* the thread ends with exception exc; the finally clause releases the lock
dies(n, exc) == [n EXCEPT !.pc = "dead", !.exc = exc, !.lock = "none"]

\* os.stat(self._filename).st_mtime, which raises when the file has gone
\* since os.path.exists
PollStat ==
  /\ notifier.pc = "stat"
  /\ notifier' = IF session.file.exists
                 THEN [notifier EXCEPT !.pc = "compare", !.seen = session.file.mtime]
                 ELSE dies(notifier, "OSError")
  /\ UNCHANGED <<apart, iphone, session, frozen>>
  /\ UNCHANGED graphOnly
  /\ idleFiles

\* "if stamp > self.stamp: self.stamp = stamp": comparing with None raises
\* TypeError, which ends run()
PollCompare ==
  /\ notifier.pc = "compare"
  /\ notifier' = IF notifier.stamp = NoStamp THEN dies(notifier, "TypeError")
                 ELSE IF notifier.seen > notifier.stamp
                 THEN [notifier EXCEPT !.pc = "notify", !.stamp = notifier.seen]
                 ELSE [notifier EXCEPT !.pc = "wait", !.lock = "none"]
  /\ UNCHANGED <<apart, iphone, session, frozen>>
  /\ UNCHANGED graphOnly
  /\ idleFiles

\* TaskFile.onFileChanged: "if not self.__saving"
PollNotify ==
  /\ notifier.pc = "notify"
  /\ notifier' = IF session.saving THEN [notifier EXCEPT !.pc = "wait", !.lock = "none"]
                 ELSE [notifier EXCEPT !.pc = "flag"]
  /\ UNCHANGED <<apart, iphone, session, frozen>>
  /\ UNCHANGED graphOnly
  /\ idleFiles

\* a faulty onFileChanged that also marks the task file dirty
onFileChangedDirty(s) ==
  [s EXCEPT !.changedOnDisk = TRUE, !.pending = FALSE, !.needSave = TRUE]

\* TaskFile.onFileChanged: self.__changedOnDisk = True
onFileChanged(s) == [s EXCEPT !.changedOnDisk = TRUE, !.pending = FALSE]

\* the flag is set and "taskfile.changed" posted with wx.CallAfter
PollFlag ==
  /\ notifier.pc = "flag"
  /\ session' = onFileChanged(session)
  /\ notifier' = [notifier EXCEPT !.pc = "wait", !.lock = "none",
                                  !.posted = @ + 1]
  /\ UNCHANGED <<apart, iphone, frozen>>
  /\ UNCHANGED graphOnly
  /\ idleFiles

\* ---- another process
OtherKinds == {"subject", "parent", "garbage"}

\* another process saves the file: with a changed subject, with t2 moved
\* to the top level, or, caught in the middle of its write, with a content
\* that does not parse
OtherWrite(kind) ==
  LET t1 == <<"f", "t1">>
      t2 == <<"f", "t2">>
      watched == /\ session.filename /\ ~session.saving /\ ~notifier.cancelled
                 /\ ~session.changedOnDisk
      moved == setParent(removeChild(heap, t1, t2), t2, None)
      ch == allChanges[ThisGuid]
  IN /\ session.file.writes < MaxWrites
     /\ session.calls > 0
     /\ kind = "subject" => heap[t1].subject # 2
     /\ kind = "parent" => heap[t2].parent = t1
     /\ kind # "garbage" =>
          /\ {t1, t2} \subseteq memObjects(heap, fileLists)
          /\ ch["t1"] # NoRec /\ ch["t2"] # NoRec
     /\ session' = [session EXCEPT
                      !.pending = @ \/ watched,
                      !.file = [@ EXCEPT !.exists = TRUE, !.mtime = @ + 1,
                                         !.writes = @ + 1,
                                         !.valid = kind # "garbage"]]
     /\ heap' = CASE kind = "subject" -> [heap EXCEPT ![t1].subject = 2]
                  [] kind = "parent" -> moved
                  [] OTHER -> heap
     /\ allChanges' =
          CASE kind = "subject" ->
                 [allChanges EXCEPT ![ThisGuid] = recordChange(ch, "t1", SUBJECT)]
            [] kind = "parent" ->
                 [allChanges EXCEPT ![ThisGuid] = recordChange(ch, "t2", PARENT)]
            [] OTHER -> allChanges
     /\ UNCHANGED <<memLists, fileLists, monitor, conflictChanges, nedits,
                    nsync, syncErr, pre>>
     /\ UNCHANGED <<apart, iphone, notifier, frozen>>
     /\ idleFiles

SessionInit ==
  /\ Loaded
  /\ files = FilesAtRest(FALSE)
  /\ taskFile = TaskFileAtRest
  /\ \E exists \in BOOLEAN, cloud \in BOOLEAN : session = SessionAtRest(exists, cloud)
  /\ notifier = NotifierAtRest
  /\ frozen = MonitorThawed
  /\ iphone = NoHandler
  /\ Apart

SessionNext ==
  \/ \E op \in SessionOps : SessionCall(op)
  \/ LoadSetFilename
  \/ LoadRead
  \/ LoadExcept
  \/ LoadFinally
  \/ SaveSaving
  \/ MergeLoading
  \/ \E ord \in Orders : MergeRead(ord)
  \/ MergeThaw
  \/ MergeReset
  \/ MergeFinally
  \/ SaveWrite
  \/ SaveRename
  \/ SaveFinally
  \/ SaveSaved
  \/ Stop
  \/ Join
  \/ \E id \in SessionIds, v \in MemValues : ChangeTask(id, v)
  \/ Poll
  \/ PollStat
  \/ PollCompare
  \/ PollNotify
  \/ PollFlag
  \/ \E kind \in OtherKinds : OtherWrite(kind)

SessionSpec == SessionInit /\ [][SessionNext]_vars

\* C11 -- No self-notification: a save() of this process never raises its
\* own changedOnDisk flag.  Read in the code's favour: as long as no other
\* process has written the file, the flag stays down.
NoSelfNotification == session.changedOnDisk => session.file.writes > 0

\* C12 -- External changes are eventually flagged.  The poller is the only
\* one to raise the flag, so a write of another process that is neither
\* flagged nor read is never flagged once the thread has ended; the claim
\* requires that this state is never reached while the watcher has not been
\* stopped and a filename is set.
ExternalChangesFlagged ==
  ~ /\ session.pending
    /\ ~session.changedOnDisk
    /\ session.filename
    /\ ~notifier.cancelled
    /\ notifier.pc = "dead"

\* C13 -- The poller thread never mutates shared domain state: a step of
\* the thread changes nothing but the notifier's own fields, the
\* changedOnDisk flag (which it raises) and the count of notifications
\* posted; the lists, the objects, the monitor, the change table, the dirty
\* flag, the file and the main thread's position (no merge is started) are
\* left as they are.
PollerFrame ==
  [][notifier'.pc # notifier.pc =>
       /\ UNCHANGED <<heap, memLists, fileLists, monitor, allChanges,
                      conflictChanges, nedits, nsync, syncErr, pre, files,
                      taskFile, frozen, iphone>>
       /\ [session' EXCEPT !.changedOnDisk = session.changedOnDisk,
                           !.pending = session.pending] = session
       /\ session.changedOnDisk => session'.changedOnDisk
       /\ notifier'.filename = notifier.filename
       /\ notifier'.cancelled = notifier.cancelled]_vars

PollerFrameWitness ==
  /\ notifier.posted > 0
  /\ session.changedOnDisk
  /\ notifier.stamp = session.file.mtime
  /\ session.file.writes > 0

\* the statements of mergeDiskChanges between freeze() and thaw()
frozenSteps == {"merge.read", "merge.thaw"}

\* C14 -- Merge runs frozen and always thaws: sync() is only ever called
\* from mergeDiskChanges with the monitor frozen, and outside the statements
\* between freeze() and thaw(), in particular once mergeDiskChanges has
\* returned or raised, the monitor is not frozen and every freeze() has been
\* matched by one thaw().
MergeFrozen ==
  /\ [](/\ at(frozenSteps) => isFrozen(frozen) /\ frozen.freezes = frozen.thaws + 1
        /\ ~at(frozenSteps) => ~isFrozen(frozen) /\ frozen.freezes = frozen.thaws)
  /\ [][nsync' # nsync => isFrozen(frozen) /\ isFrozen(frozen')]_vars

MergeFrozenWitness ==
  /\ at({"idle"})
  /\ session.result = "ValueError"
  /\ nsync > 0
  /\ frozen.thaws > 0

\* C20 -- After a successful load() the file is neither dirty nor changed
\* on disk, the monitor holds the empty record for every loaded object and
\* the change table maps this device's guid to the monitor; a load() that
\* found no file leaves an empty graph.
LoadClean ==
  [][(session.pc = "load.finally" /\ session'.pc = "idle" /\ session.exc = "") =>
       /\ ~session'.needSave
       /\ ~session'.changedOnDisk
       /\ ~session'.loading
       /\ \A id \in objectIds(heap', memLists') : monitor'[id] = {}
       /\ session'.own = "monitor"
       /\ ~session.found => memObjects(heap', memLists') = {}]_vars

LoadCleanWitness ==
  /\ at({"idle"})
  /\ session.result = "load"
  /\ session.calls = 2
  /\ session.found
  /\ nedits > 0
  /\ notifier.posted > 0
  /\ ~session.needSave
  /\ ~session.changedOnDisk

\* ------------------------------------------------ freeze() and thaw()
\* Number of calls of freeze()
MaxFreezes == 3

\* Number of mutation events the monitor receives
MaxEvents == 3

MonitorInit == Init

Freeze ==
  /\ frozen.freezes < MaxFreezes
  /\ frozen' = freeze(frozen)
  /\ UNCHANGED <<apart, iphone, session, notifier>>
  /\ UNCHANGED graphOnly
  /\ idleFiles

\* thaw() is called to match a freeze()
Thaw ==
  /\ isFrozen(frozen)
  /\ frozen' = thaw(frozen)
  /\ UNCHANGED <<apart, iphone, session, notifier>>
  /\ UNCHANGED graphOnly
  /\ idleFiles

\* an object the monitor knows changes an attribute that has no change
\* recorded yet
Mutation(id, name) ==
  /\ nedits < MaxEvents
  /\ monitor[id] # NoRec
  /\ DEL \notin monitor[id]
  /\ name \notin monitor[id]
  /\ notified(id, name)
  /\ nedits' = nedits + 1
  /\ UNCHANGED <<heap, memLists, fileLists, allChanges, conflictChanges, nsync,
                 syncErr, pre>>
  /\ UNCHANGED <<apart, iphone, session, notifier>>
  /\ idleFiles

MonitorNext ==
  \/ Freeze
  \/ Thaw
  \/ \E id \in {"t1", "t3"}, name \in {SUBJECT, PARENT} : Mutation(id, name)

MonitorSpec == MonitorInit /\ [][MonitorNext]_vars

\* C15 -- freeze()/thaw() are counted: with fewer thaw() than freeze()
\* calls the monitor is frozen and a mutation event leaves its records as
\* they are; with as many thaw() as freeze() calls it is not frozen and the
\* event is recorded.
CountedFreeze ==
  /\ [](isFrozen(frozen) <=> frozen.thaws < frozen.freezes)
  /\ [](frozen.thaws <= frozen.freezes)
  /\ [][nedits' # nedits =>
          IF frozen.thaws < frozen.freezes THEN monitor' = monitor
          ELSE monitor' # monitor]_vars

CountedFreezeWitness ==
  /\ frozen.freezes >= 2
  /\ frozen.thaws >= 1
  /\ frozen.thaws < frozen.freezes
  /\ frozen.dropped > 0
  /\ \E id \in Ids : monitor[id] \notin {NoRec, {}}

\* ------------------------------------- the merge: shape of the merged graph
\* the instances of the in-memory graph
memInstances == memObjects(heap, memLists)

\* how often x occurs in q
count(q, x) == Cardinality({i \in 1..Len(q) : q[i] = x})

\* how often an object with the id of x occurs in q
countId(q, x) == Cardinality({i \in 1..Len(q) : IdOf(q[i]) = IdOf(x)})

\* o sits once in the children of its parent, as the only object of its id,
\* and every child of o has o as its parent
attachedOnce(o) ==
  /\ heap[o].parent # None =>
       /\ heap[o].parent \in memInstances
       /\ count(heap[heap[o].parent].children, o) = 1
       /\ countId(heap[heap[o].parent].children, o) = 1
  /\ \A c \in SeqToSet(heap[o].children) : heap[c].parent = o

\* C26 -- children are detached and re-attached exactly once: after a merge
\* every composite object of the in-memory graph occurs exactly once in the
\* children list of its parent, no child is there twice and none is lost,
\* whatever number of children a new disk object had.
ChildrenAttachedOnce ==
  syncEnded =>
    \A o \in memInstances : IsCompositeObject(IdOf(o)) => attachedOnce(o)

\* the members of the in-memory lists
listMembers == UNION {memLists[ListKinds[i]] : i \in 1..Len(ListKinds)}

\* the instance was in the in-memory graph before the merge
sameInstance(o) == IdOf(o) \in pre.ids => o \in pre.objs

\* C28 -- identity preservation: after sync() the object found in mem under
\* an id that was in mem before is the instance that was there before; a
\* disk-side instance enters mem only for an id that was absent from mem.
IdentityPreserved ==
  syncReturned => \A o \in memInstances \cup listMembers : sameInstance(o)

\* an object the local monitor marks deleted and the file still holds
deletedHere(id) == hasChange(pre.mon, id, DEL) /\ id \in diskIds

\* no object with this id is in the in-memory graph or lists
gone(id) == \A o \in memInstances \cup listMembers : IdOf(o) # id

\* C27 -- no resurrection: an object that is still on disk and that the
\* local monitor marks __del__ is not added back to the in-memory graph by
\* sync(), be it a composite object, a note, an attachment or an effort.
NoResurrection ==
  syncEnded => \A id \in Ids : deletedHere(id) => gone(id)

\* this device has deleted an object
deletedLocally == IF \E id \in Ids : hasChange(monitor, id, DEL) THEN 1 ELSE 0

\* Device A deletes an object, device B adds and moves tasks in the file,
\* then A merges
DeletedAwayNext ==
  \/ /\ nsync = 0 /\ nedits = 0
     /\ LET pr == present IN \E id \in Ids : Delete(pr, "m", id)
  \/ /\ nsync = 0
     /\ nedits < MaxAwayEdits + deletedLocally
     /\ LET pr == present
        IN \E id \in TaskIds, pid \in TaskIds \cup {"-"} : Reparent(pr, "f", id, pid)
  \/ /\ nsync = 0
     /\ nedits < MaxAwayEdits + deletedLocally
     /\ LET pr == present
        IN \E id \in TaskIds, pid \in TaskIds \cup {"-"} : AddTask(pr, "f", id, pid)
  \/ \E ord \in Orders : Sync(ord)

DeletedAwaySpec == Init /\ [][DeletedAwayNext]_vars

\* a composite object of the lists that is new on disk: its id is absent
\* from mem and the local monitor does not mark it deleted
newComposite(id) ==
  /\ id \in TaskIds
  /\ id \in diskIds
  /\ id \notin pre.ids
  /\ ~hasChange(pre.mon, id, DEL)

\* the id is in the mem map when pass 1 looks it up: it was in mem, or it is
\* itself a new object that pass 1 has added before its children
inMemMap(pid) == pid \in pre.ids \/ newComposite(pid)

\* where pass 1 has to put the new object id
placed(id) ==
  LET dp == diskView[id].parent
  IN /\ id \in memIds
     /\ \E L \in SeqToSet(ListKinds) : \E o \in memLists[L] : IdOf(o) = id
     /\ IF dp = "-"
        THEN memView[id].parent = "-" /\ ~hasChange(conflictChanges, id, PARENT)
        ELSE IF inMemMap(dp)
        THEN /\ dp \in memIds
             /\ memView[id].parent = dp
             /\ InSeq(memView[dp].children, id)
             /\ ~hasChange(conflictChanges, id, PARENT)
        ELSE /\ memView[id].parent = "-"
             /\ hasChange(conflictChanges, id, PARENT)

\* C25 -- pass-1 placement: after sync() has returned, every composite object
\* that was new on disk is in the mem list, as a child of the mem object with
\* its disk parent's id when that id is in the mem map, top-level with a
\* __parent__ entry in conflictChanges when it is not, and top-level without
\* conflict when its disk parent is None.
PassOnePlacement ==
  syncReturned => \A id \in TaskIds : newComposite(id) => placed(id)

\* id is on both sides, and only the disk-side record names the subject
changedOnDiskOnly(id) ==
  /\ id \in pre.ids
  /\ id \in diskIds
  /\ hasChange(pre.dch, id, SUBJECT)
  /\ ~hasChange(pre.mon, id, SUBJECT)

\* mem has the disk value under id, and no conflict on it
diskValueTaken(id) ==
  /\ id \in memIds
  /\ memView[id].subject = diskView[id].subject
  /\ ~hasChange(conflictChanges, id, SUBJECT)

\* C29 -- disk-only changes are applied: for an object present on both sides
\* and an ordinary attribute that the disk-side change record names and the
\* local monitor's record does not, mem has the disk value after sync() has
\* returned and no conflict is recorded for the attribute.
DiskOnlyChangesApplied ==
  syncReturned => \A id \in Ids : changedOnDiskOnly(id) => diskValueTaken(id)

MaxSubtreeEdits == 4

\* Device A moves tasks, both devices change subjects, device B deletes
\* and adds tasks in the file, then A merges
SubtreeNext ==
  \/ /\ nsync = 0 /\ nedits < MaxSubtreeEdits
     /\ LET pr == present
        IN \E id \in TaskIds, pid \in TaskIds \cup {"-"} : Reparent(pr, "m", id, pid)
  \/ /\ nsync = 0 /\ nedits < MaxSubtreeEdits
     /\ LET pr == present
        IN \E sd \in EditSides, id \in TaskIds, v \in DiskValues :
             SetSubject(pr, sd, id, v)
  \/ /\ nsync = 0 /\ nedits < MaxSubtreeEdits
     /\ LET pr == present
        IN \E id \in TaskIds : Delete(pr, "f", id)
  \/ /\ nsync = 0 /\ nedits < MaxSubtreeEdits
     /\ LET pr == present
        IN \E id \in TaskIds, pid \in TaskIds \cup {"-"} : AddTask(pr, "f", id, pid)
  \/ \E ord \in Orders : Sync(ord)

SubtreeSpec == Init /\ [][SubtreeNext]_vars

\* -------------------------------------------------- the merge: appearance
\* the values of a colour, a font or an icon that the devices choose from
AppearanceValues == {1, 2}

\* Object.setForegroundColor, setBackgroundColor, setFont, setIcon or
\* setSelectedIcon: the appearance event names the object and, for a
\* composite object, its children at all depths
SetAppearance(pr, sd, id, a, v) ==
  LET o == <<sd, id>>
      touched == {IdOf(c) : c \in compositesAndAllChildren(heap, o)}
      cs == Fold(LAMBDA c, i : IF i \in touched /\ c[i] # NoRec
                               THEN recordChange(c, i, APPEARANCE) ELSE c,
                 changesOf(sd), IdOrder)
  IN /\ id \in TaskIds
     /\ editable(pr, sd, id)
     /\ heap[o].appearance[a] # v
     /\ edited(sd, [heap EXCEPT ![o].appearance[a] = v], listsOf(sd), cs)

\* The two devices change colours, fonts and icons, then A merges
AppearanceNext ==
  \/ /\ canEdit
     /\ LET pr == present
        IN \E sd \in EditSides, id \in TaskIds, a \in SeqToSet(attrNames),
              v \in AppearanceValues : SetAppearance(pr, sd, id, a, v)
  \/ \E ord \in Orders : Sync(ord)

AppearanceSpec == Init /\ [][AppearanceNext]_vars

\* both devices have changed the appearance of id
appearanceChangedTwice(id) ==
  /\ id \in pre.ids
  /\ id \in diskIds
  /\ hasChange(pre.dch, id, APPEARANCE)
  /\ hasChange(pre.mon, id, APPEARANCE)

\* the sub-attributes of id whose mem and disk values differ
differing(id) ==
  {a \in SeqToSet(attrNames) : pre.view[id].appearance[a] # diskView[id].appearance[a]}

\* C30 -- appearance is conflict-checked per sub-attribute: when both change
\* records of an object name 'appearance', a conflict is recorded for it only
\* if at least one of the five sub-attributes has different values in mem and
\* on disk.
AppearancePerSubAttribute ==
  syncReturned =>
    \A id \in Ids :
      (appearanceChangedTwice(id) /\ hasChange(conflictChanges, id, APPEARANCE))
        => differing(id) # {}

\* ------------------------------------------------- load() of a bad file
\* a step of the main thread in a load() that the read has ended or ends
\* with an exception
failingLoadStep ==
  /\ session.op = "load"
  /\ session'.pc # session.pc
  /\ session.exc \in ReadErrors \/ session'.exc \in ReadErrors

\* C21 -- no partial load: when the read fails inside load(), with a file of
\* a newer format or a parse error, the in-memory tasks, categories and notes,
\* the monitor and the change table stay exactly as they were before the
\* call, no object of the file is added, and load() ends with the exception.
NoPartialLoad ==
  [][failingLoadStep =>
       /\ memLists' = memLists
       /\ view(heap', memLists') = view(heap, memLists)
       /\ monitor' = monitor
       /\ allChanges' = allChanges
       /\ session'.own = session.own
       /\ session'.pc = "idle" => session'.result = session.exc]_vars

NoPartialLoadWitness ==
  /\ at({"idle"})
  /\ session.op = "load"
  /\ session.result = "XMLReaderTooNewException"
  /\ ~session.filename
  /\ memObjects(heap, memLists) # {}
  /\ \E id \in Ids : monitor[id] \notin {NoRec, {}}

\* ------------------------------------------- the sidecar of change records
\* The sidecar is a document with a section per device, which holds one
\* entry per object id with the names of its record joined into a text.
\* the records of the tables that are written
SidecarRecords == {NoRec, {}, {DEL}, {PARENT}, {SUBJECT, PARENT}}

\* the orders in which guids and names come out of a dict and of a set
GuidOrder == <<ThisGuid, OtherGuid>>

NameOrder == <<DEL, PARENT, OWNER, SUBJECT, APPEARANCE>>

\* "for x in S" for a set or the keys of a dict S, in the order ord
iterate(S, order, ord) ==
  SelectSeq(IF ord = "asc" THEN order
            ELSE [k \in 1..Len(order) |-> order[Len(order) + 1 - k]],
            LAMBDA x : x \in S)

\* the text of an entry: the names of the record, one after the other
join(names, ord) == iterate(names, NameOrder, ord)

\* a faulty reader that splits the text whatever it is: an empty text gives
\* the set with the empty name
splitEmptyText(text) ==
  IF text = <<>> THEN {""} ELSE {text[i] : i \in 1..Len(text)}

\* the record of an entry: the names of its text, none for an empty text
split(text) == {text[i] : i \in 1..Len(text)}

\* ChangesXMLWriter.write(self.changes())
writeChanges(table, ord) ==
  LET objs(cs) == LET ids == iterate({id \in Ids : cs[id] # NoRec}, IdOrder, ord)
                  IN [j \in 1..Len(ids) |->
                        [id |-> ids[j], text |-> join(cs[ids[j]], ord)]]
      guids == iterate(DOMAIN table, GuidOrder, ord)
  IN [i \in 1..Len(guids) |-> [guid |-> guids[i], objs |-> objs(table[guids[i]])]]

\* ChangesXMLReader.read()
readChanges(doc) ==
  LET section(g) == doc[CHOOSE i \in 1..Len(doc) : doc[i].guid = g].objs
      record(q, id) ==
        IF \E j \in 1..Len(q) : q[j].id = id
        THEN split(q[CHOOSE j \in 1..Len(q) : q[j].id = id].text)
        ELSE NoRec
  IN [g \in {doc[i].guid : i \in 1..Len(doc)} |->
        [id \in Ids |-> record(section(g), id)]]

\* no sidecar written yet
NoDoc == <<[guid |-> "-", objs |-> <<>>]>>

\* the change table is any mapping from guids to change sets
SidecarInit ==
  /\ \E D \in SUBSET Guids :
       allChanges \in [D -> {changeSet(r1, r2) : r1 \in SidecarRecords,
                                               r2 \in SidecarRecords}]
  /\ monitor = empty
  /\ conflictChanges = empty
  /\ heap = [o \in Insts |-> IF o[1] \in {"m", "f"} THEN BaseObject(o[1], o[2])
                             ELSE Blank]
  /\ memLists = BaseLists("m")
  /\ fileLists = BaseLists("f")
  /\ nedits = 0
  /\ nsync = 0
  /\ syncErr = ""
  /\ pre = [table |-> allChanges, doc |-> NoDoc, loaded |-> FALSE]
  /\ files = FilesAtRest(FALSE)
  /\ taskFile = TaskFileAtRest
  /\ Unwatched

\* "xml.ChangesXMLWriter(fd).write(self.changes())" of mergeDiskChanges
WriteChanges(ord) ==
  /\ pre.doc = NoDoc
  /\ pre' = [pre EXCEPT !.doc = writeChanges(allChanges, ord)]
  /\ files' = [files EXCEPT !.delta = @ + 1]
  /\ UNCHANGED <<heap, memLists, fileLists, monitor, allChanges, conflictChanges,
                 nedits, nsync, syncErr, taskFile>>
  /\ UNCHANGED watch

\* "xml.ChangesXMLReader(self.filename() + '.delta').read()"
ReadChanges ==
  /\ pre.doc # NoDoc
  /\ ~pre.loaded
  /\ allChanges' = readChanges(pre.doc)
  /\ pre' = [pre EXCEPT !.loaded = TRUE]
  /\ UNCHANGED <<heap, memLists, fileLists, monitor, conflictChanges, nedits,
                 nsync, syncErr, files, taskFile>>
  /\ UNCHANGED watch

SidecarNext ==
  \/ \E ord \in Orders : WriteChanges(ord)
  \/ ReadChanges

SidecarSpec == SidecarInit /\ [][SidecarNext]_vars

\* C22 -- sidecar round trip: a change table written to the sidecar and read
\* back is the same mapping: the same guids, for each guid the same ids, and
\* for each id the same set of names, be it empty, __del__ or __parent__.
SidecarRoundTrip ==
  pre.loaded =>
    /\ DOMAIN allChanges = DOMAIN pre.table
    /\ \A g \in DOMAIN pre.table : \A id \in Ids : allChanges[g][id] = pre.table[g][id]

SidecarRoundTripWitness ==
  /\ pre.loaded
  /\ DOMAIN allChanges = Guids
  /\ allChanges[ThisGuid]["t1"] = {}
  /\ allChanges[ThisGuid]["t2"] = {DEL}
  /\ allChanges[OtherGuid]["t1"] = {SUBJECT, PARENT}
  /\ allChanges[OtherGuid]["t2"] = NoRec
  /\ allChanges = pre.table

\* ---------------------------------------------------------------------
\* the iPhone protocol handler (iphone/protocol.py)
\* ---------------------------------------------------------------------

\* the password of the settings and what a device may append instead
IPhonePassword == "secret"
Passwords == {"secret", "guess"}

\* PasswordState.init: the 512 random bytes; the same bytes may be drawn
\* again
Challenges == {1, 2}

\* sha.sha(hashData + password).digest(): taken to be free of collisions,
\* so a digest tells the bytes and the password it was made of
sha(hashData, password) == <<hashData, password>>

\* the 20 bytes a device may send back: any digest it can compute, of the
\* bytes of this challenge or of an earlier one, with either password
Digests == {sha(c, p) : c \in Challenges, p \in Passwords}

MaxTasks == 2
MaxCategories == 2

\* Task(...) and Category(...) make an object with an id of its own
NewTask(k) == <<"task", k>>
NewCategory(k) == <<"category", k>>
TaskFileGuid == <<"guid", 0>>
NoTask == <<"task", 0>>
UnknownCategory == <<"category", 0>>

\* self.length = None
NoLength == -1

\* the tasks and categories of window.taskFile, ofTask the categories of
\* each task
IPhoneFile(tasks) ==
  [tasks |-> tasks, categories |-> {}, ofTask |-> [t \in tasks |-> {}]]

\* window.clearTasks()
clearTasks(w) == IPhoneFile({})

\* window.restoreTasks(oldCategories, oldTasks)
restoreTasks(w, old) == old

\* window.addIPhoneCategory(category)
addIPhoneCategory(w, category) ==
  [w EXCEPT !.categories = @ \cup {category}]

\* window.addIPhoneTask(task, categories)
addIPhoneTask(w, task, categories) ==
  [w EXCEPT !.tasks = @ \cup {task},
            !.ofTask = [t \in w.tasks \cup {task} |->
                          IF t = task THEN categories ELSE w.ofTask[t]]]

\* IPhoneHandler.pushInteger, pushString and push: what went to the device
\* while the last data was handled
pushInteger(h, value) == [h EXCEPT !.out = Append(@, <<"integer", value>>)]
pushString(h, string) == [h EXCEPT !.out = Append(@, <<"string", string>>)]
pushBytes(h, bytes) == [h EXCEPT !.out = Append(@, <<"bytes", bytes>>)]

\* IPhoneHandler.__init__ with BaseState.__init__ and InitialState.init:
\* the copies for the rollback are taken once, version 2 is offered.
\* class is the class of the state object, state its self.state, data what
\* found_terminator() handed over last, made the number of Task objects
\* constructed; announced, listed and sent are what the device said and
\* was told during a full sync from it
IPhoneHandler(w) ==
  [class |-> "InitialState", closed |-> FALSE, old |-> w, window |-> w,
   currentProtocolVersion |-> 2, protocolVersion |-> 0, hashData |-> 0,
   data |-> <<>>, out |-> <<<<"integer", 2>>>>, length |-> NoLength,
   type |-> -1, categoryCount |-> 0, taskCount |-> 0, state |-> 0,
   taskCategoryCount |-> 0, categories |-> {}, categoryMap |-> {},
   task |-> NoTask, made |-> 0, announced |-> 0, listed |-> <<>>,
   sent |-> {}]

\* found_terminator(): the collected data goes to the state
found(h, data) == [h EXCEPT !.data = data, !.out = <<>>]

\* PasswordState.init
initPasswordState(h, hashData) ==
  [pushBytes(h, hashData) EXCEPT !.class = "PasswordState",
                                 !.hashData = hashData,
                                 !.length = NoLength]

\* DeviceNameState.init, GUIDState.init
initDeviceNameState(h) == [h EXCEPT !.class = "DeviceNameState", !.length = NoLength]
initGUIDState(h) == [h EXCEPT !.class = "GUIDState", !.length = NoLength]

\* InitialState.handleData: hashData are the bytes PasswordState.init
\* draws; notifyIPhoneProtocolFailed() follows close()
handleInitialState(h, hashData) ==
  IF h.data # 0
  THEN initPasswordState([h EXCEPT !.protocolVersion = h.currentProtocolVersion],
                         hashData)
  ELSE IF h.currentProtocolVersion = 1
       THEN [h EXCEPT !.closed = TRUE]
       ELSE pushInteger([h EXCEPT !.currentProtocolVersion = @ - 1],
                        h.currentProtocolVersion - 1)

\* the comparison of PasswordState.handleData taken without the bytes of
\* this challenge
hashMatchesAnyBytes(data, hashData, password) ==
  \E c \in Challenges : data = sha(c, password)

\* the comparison of PasswordState.handleData
hashMatches(data, hashData, password) == data = sha(hashData, password)

\* PasswordState.handleData: bytes are those of the next challenge
handlePasswordState(h, bytes) ==
  IF hashMatches(h.data, h.hashData, IPhonePassword)
  THEN initDeviceNameState(pushInteger(h, 1))
  ELSE initPasswordState(pushInteger(h, 0), bytes)

\* DeviceNameState.handleData
handleDeviceNameState(h) ==
  IF h.length = NoLength
  THEN [h EXCEPT !.length = h.data]
  ELSE initGUIDState(h)

\* EndState.init
initEndState(h) == [h EXCEPT !.class = "EndState"]

\* FullFromDeviceTaskState.init
initFullFromDeviceTaskState(h) ==
  IF h.taskCount # 0
  THEN [h EXCEPT !.class = "FullFromDeviceTaskState", !.length = NoLength,
                 !.state = 0]
  ELSE initEndState(pushString(h, TaskFileGuid))

\* FullFromDeviceCategoryState.init
initFullFromDeviceCategoryState(h) ==
  LET s == [h EXCEPT !.class = "FullFromDeviceCategoryState",
                     !.length = NoLength, !.categoryMap = {}]
  IN IF s.categoryCount # 0 THEN s ELSE initFullFromDeviceTaskState(s)

\* FullFromDeviceState.init
initFullFromDeviceState(h) ==
  [h EXCEPT !.class = "FullFromDeviceState", !.window = clearTasks(@)]

\* GUIDState.onSyncType; what TwoWayState and FullFromDesktopState go on
\* to exchange is not followed
onSyncType(h, type) ==
  LET s == pushInteger([h EXCEPT !.type = type], type)
  IN IF type = 0 THEN [s EXCEPT !.class = "TwoWayState"]
     ELSE IF type = 1 THEN [s EXCEPT !.class = "FullFromDesktopState"]
     ELSE IF type = 2 THEN initFullFromDeviceState(s)
     ELSE s

\* GUIDState.handleData: type is the answer of window.getIPhoneSyncType()
handleGUIDState(h, type) ==
  IF h.length = NoLength
  THEN IF h.data # 0 THEN [h EXCEPT !.length = h.data]
       ELSE onSyncType([h EXCEPT !.length = h.data], type)
  ELSE onSyncType(h, type)

\* FullFromDeviceState.handleData
handleFullFromDeviceState(h) ==
  initFullFromDeviceCategoryState(
    [h EXCEPT !.categoryCount = h.data[1], !.taskCount = h.data[2],
              !.announced = h.data[2]])

\* FullFromDeviceCategoryState.handleData
handleFullFromDeviceCategoryState(h) ==
  IF h.length = NoLength
  THEN [h EXCEPT !.length = h.data]
  ELSE LET category == NewCategory(Cardinality(h.window.categories) + 1)
           s == [pushString(h, category) EXCEPT
                   !.window = addIPhoneCategory(@, category),
                   !.categoryMap = @ \cup {category},
                   !.categoryCount = @ - 1]
       IN IF s.categoryCount # 0 THEN [s EXCEPT !.length = NoLength]
          ELSE initFullFromDeviceTaskState(s)

\* FullFromDeviceTaskCategoryCountState.init
initFullFromDeviceTaskCategoryCountState(h, task) ==
  [h EXCEPT !.class = "FullFromDeviceTaskCategoryCountState", !.task = task,
            !.listed = [t \in DOMAIN h.listed \cup {task} |->
                          IF t = task THEN {} ELSE h.listed[t]]]

\* FullFromDeviceTaskState.handleData once the length is read: subject,
\* description, startDate and dueDate are kept, the completion date makes
\* the Task
taskField(h) ==
  IF h.state = 4
  THEN initFullFromDeviceTaskCategoryCountState([h EXCEPT !.made = @ + 1],
                                                NewTask(h.made + 1))
  ELSE [h EXCEPT !.length = NoLength, !.state = @ + 1]

\* FullFromDeviceTaskState.handleData: an empty string is handled at once
handleFullFromDeviceTaskState(h) ==
  IF h.length = NoLength
  THEN IF h.data = 0 THEN taskField([h EXCEPT !.length = 0])
       ELSE [h EXCEPT !.length = h.data]
  ELSE taskField(h)

\* FullFromDeviceTaskCategoriesState.init
initFullFromDeviceTaskCategoriesState(h) ==
  [h EXCEPT !.class = "FullFromDeviceTaskCategoriesState",
            !.categories = {}, !.length = NoLength]

\* the id of the task goes to the device and the next task is awaited, or
\* the guid ends the sync
taskAnswered(h) ==
  LET s == [pushString(h, h.task) EXCEPT !.sent = @ \cup {h.task},
                                         !.taskCount = @ - 1]
  IN IF s.taskCount # 0 THEN initFullFromDeviceTaskState(s)
     ELSE initEndState(pushString(s, TaskFileGuid))

\* FullFromDeviceTaskCategoryCountState.handleData
handleFullFromDeviceTaskCategoryCountState(h) ==
  LET s == [h EXCEPT !.taskCategoryCount = h.data]
  IN IF s.taskCategoryCount # 0 THEN initFullFromDeviceTaskCategoriesState(s)
     ELSE taskAnswered(s)

\* a faulty handleClose that leaves the task file as the device got it
handleCloseNoRollback(h) == h

\* BaseState.handleClose and EndState.handleClose
handleClose(h) ==
  IF h.class = "EndState" THEN h
  ELSE [h EXCEPT !.window = restoreTasks(@, h.old)]

\* IPhoneHandler.handle_error
handle_error(h) == handleClose([h EXCEPT !.closed = TRUE])

\* IPhoneHandler.handle_close
handle_close(h) == [handleClose(h) EXCEPT !.closed = TRUE]

\* FullFromDeviceTaskCategoriesState.handleData: an id that is not in
\* categoryMap raises KeyError
handleFullFromDeviceTaskCategoriesState(h) ==
  IF h.length = NoLength
  THEN [h EXCEPT !.length = h.data]
  ELSE IF h.data \notin h.categoryMap THEN handle_error(h)
  ELSE LET s == [h EXCEPT !.categories = @ \cup {h.data},
                          !.listed[h.task] = @ \cup {h.data},
                          !.taskCategoryCount = @ - 1]
       IN IF s.taskCategoryCount # 0 THEN [s EXCEPT !.length = NoLength]
          ELSE taskAnswered([s EXCEPT !.window =
                               addIPhoneTask(@, s.task, s.categories)])

\* EndState.handleData: close_when_done()
handleEndState(h) == [h EXCEPT !.closed = TRUE]

\* the task file a device finds: empty, or with a task made on the desktop
OldTask == <<"task", -1>>
Lengths == {0, 1}
SyncTypes == 0 .. 3

desktop == <<heap, memLists, fileLists, monitor, allChanges, conflictChanges,
             nedits, nsync, syncErr, pre, files, taskFile, session, notifier,
             frozen, apart>>

\* the handler is connected and its state is of class c
in(c) == iphone.class = c /\ ~iphone.closed

\* IPhoneAcceptor's factory: a device connects and a password is set
Connect(tasks) ==
  /\ iphone = NoHandler
  /\ iphone' = IPhoneHandler(IPhoneFile(tasks))
  /\ UNCHANGED desktop

\* found_terminator() in each state, the device sending what it likes
InitialStateData ==
  /\ in("InitialState")
  /\ \E response \in {0, 1}, bytes \in Challenges :
       iphone' = handleInitialState(found(iphone, response), bytes)
  /\ UNCHANGED desktop

PasswordStateData ==
  /\ in("PasswordState")
  /\ \E digest \in Digests, bytes \in Challenges :
       iphone' = handlePasswordState(found(iphone, digest), bytes)
  /\ UNCHANGED desktop

DeviceNameStateData ==
  /\ in("DeviceNameState")
  /\ LET data == IF iphone.length = NoLength THEN 1 ELSE <<"name">>
     IN iphone' = handleDeviceNameState(found(iphone, data))
  /\ UNCHANGED desktop

GUIDStateData ==
  /\ in("GUIDState")
  /\ iphone.type = -1
  /\ \E type \in SyncTypes :
       IF iphone.length = NoLength
       THEN \E length \in Lengths :
              iphone' = handleGUIDState(found(iphone, length), type)
       ELSE iphone' = handleGUIDState(found(iphone, <<"guid">>), type)
  /\ UNCHANGED desktop

FullFromDeviceStateData ==
  /\ in("FullFromDeviceState")
  /\ \E categoryCount \in 0 .. MaxCategories, taskCount \in 0 .. MaxTasks :
       iphone' = handleFullFromDeviceState(
                   found(iphone, <<categoryCount, taskCount>>))
  /\ UNCHANGED desktop

FullFromDeviceCategoryStateData ==
  /\ in("FullFromDeviceCategoryState")
  /\ LET data == IF iphone.length = NoLength THEN 1 ELSE <<"name">>
     IN iphone' = handleFullFromDeviceCategoryState(found(iphone, data))
  /\ UNCHANGED desktop

FullFromDeviceTaskStateData ==
  /\ in("FullFromDeviceTaskState")
  /\ IF iphone.length = NoLength
     THEN \E length \in Lengths :
            iphone' = handleFullFromDeviceTaskState(found(iphone, length))
     ELSE iphone' = handleFullFromDeviceTaskState(found(iphone, <<"text">>))
  /\ UNCHANGED desktop

FullFromDeviceTaskCategoryCountStateData ==
  /\ in("FullFromDeviceTaskCategoryCountState")
  /\ \E taskCategoryCount \in 0 .. Cardinality(iphone.categoryMap) :
       iphone' = handleFullFromDeviceTaskCategoryCountState(
                   found(iphone, taskCategoryCount))
  /\ UNCHANGED desktop

FullFromDeviceTaskCategoriesStateData ==
  /\ in("FullFromDeviceTaskCategoriesState")
  /\ IF iphone.length = NoLength
     THEN iphone' = handleFullFromDeviceTaskCategoriesState(found(iphone, 1))
     ELSE \E id \in (iphone.categoryMap \ iphone.categories)
                      \cup {UnknownCategory} :
            iphone' = handleFullFromDeviceTaskCategoriesState(found(iphone, id))
  /\ UNCHANGED desktop

EndStateData ==
  /\ in("EndState")
  /\ iphone' = handleEndState(found(iphone, 1))
  /\ UNCHANGED desktop

\* the device closes the connection
Close ==
  /\ iphone # NoHandler
  /\ ~iphone.closed
  /\ iphone' = handle_close(iphone)
  /\ UNCHANGED desktop

IPhoneInit == Init

IPhoneNext ==
  \/ \E tasks \in {{}, {OldTask}} : Connect(tasks)
  \/ InitialStateData
  \/ PasswordStateData
  \/ DeviceNameStateData
  \/ GUIDStateData
  \/ FullFromDeviceStateData
  \/ FullFromDeviceCategoryStateData
  \/ FullFromDeviceTaskStateData
  \/ FullFromDeviceTaskCategoryCountStateData
  \/ FullFromDeviceTaskCategoriesStateData
  \/ EndStateData
  \/ Close

IPhoneSpec == IPhoneInit /\ [][IPhoneNext]_vars

\* the handler has not left the password state
beforePassword == iphone.class \in {"InitialState", "PasswordState"}

\* a step that hands a digest to PasswordState.handleData
digestHandled == in("PasswordState") /\ ~iphone'.closed

\* the digest received in this step is that of the bytes of the challenge
\* it answers and of the configured password
rightDigest == iphone'.data = sha(iphone.hashData, IPhonePassword)

\* C23: the handler leaves the password state only in a step that received
\* the SHA1 digest of the current challenge and the configured password,
\* and then for the device name state with the answer 1; a step that
\* received any other digest is answered with 0 and the bytes of a new
\* challenge and stays in the password state; until the password state is
\* left no sync type is chosen and the tasks and categories of the task
\* file are those the device found when it connected
AuthenticationGate ==
  /\ [](beforePassword => iphone.type = -1 /\ iphone.window = iphone.old)
  /\ [][/\ iphone.class \in {"", "InitialState"}
           => iphone'.class \in {"", "InitialState", "PasswordState"}
        /\ iphone.class = "PasswordState" /\ iphone'.class # "PasswordState"
           => /\ rightDigest
              /\ iphone'.class = "DeviceNameState"
              /\ iphone'.out = <<<<"integer", 1>>>>
        /\ digestHandled /\ ~rightDigest
           => /\ iphone'.class = "PasswordState"
              /\ iphone'.out = <<<<"integer", 0>>,
                                 <<"bytes", iphone'.hashData>>>>]_vars

\* the device was let in after a challenge it had answered wrongly was
\* replaced: it is answered 1 for the digest of the second bytes
AuthenticationGateWitness ==
  /\ iphone.class = "DeviceNameState"
  /\ iphone.length = NoLength
  /\ iphone.hashData = 2
  /\ iphone.data = sha(2, IPhonePassword)
  /\ iphone.out = <<<<"integer", 1>>>>

\* C24: when a full sync from the device has reached the end state, the
\* task file holds as many tasks as the device announced, they are the
\* tasks made of what it sent, each with the categories it listed for it
\* (none for a task it listed none for), and every task id that went to
\* the device is the id of a task of the task file
FullFromDeviceComplete ==
  iphone.class = "EndState" =>
    /\ Cardinality(iphone.window.tasks) = iphone.announced
    /\ iphone.window.tasks = DOMAIN iphone.listed
    /\ \A t \in iphone.window.tasks : iphone.window.ofTask[t] = iphone.listed[t]
    /\ iphone.sent \subseteq iphone.window.tasks

\* the connection has ended in a state of class other than EndState
aborted ==
  /\ iphone # NoHandler
  /\ iphone.closed
  /\ iphone.class # "EndState"

MaxCategoryEdits == 3

\* both devices have loaded a file with the tasks of the base graph and the
\* category c1, which no task belongs to
CategoryInit ==
  /\ heap = [o \in Insts |-> IF o[1] \in {"m", "f"} THEN BaseObject(o[1], o[2])
                             ELSE Blank]
  /\ memLists = [BaseLists("m") EXCEPT !["category"] = {<<"m", "c1">>}]
  /\ fileLists = [BaseLists("f") EXCEPT !["category"] = {<<"f", "c1">>}]
  /\ monitor = [BaseChanges EXCEPT !["c1"] = {}]
  /\ allChanges = [g \in Guids |-> [BaseChanges EXCEPT !["c1"] = {}]]
  /\ conflictChanges = empty
  /\ nedits = 0
  /\ nsync = 0
  /\ syncErr = ""
  /\ pre = NoPre
  /\ files = FilesAtRest(FALSE)
  /\ taskFile = TaskFileAtRest
  /\ Unwatched

\* the objects of side sd that belong to category c
categorizables(h, objs, c) == {o \in objs : c \in h[o].categories}

\* a task is put into a category or taken out of it: addCategory or
\* removeCategory of the task, recorded as a change of its categories
ToggleCategory(pr, sd, id, cid) ==
  LET o == <<sd, id>>
      c == <<sd, cid>>
  IN /\ id \in TaskIds
     /\ editable(pr, sd, id)
     /\ c \in listsOf(sd)["category"]
     /\ edited(sd,
               [heap EXCEPT ![o].categories =
                              IF c \in @ THEN @ \ {c} ELSE @ \cup {c}],
               listsOf(sd), recordChange(changesOf(sd), id, CATEGORIES))

\* a category is deleted: it leaves the list of categories, and the objects
\* that belonged to it lose it, which is a change of their categories
DeleteCategory(pr, sd, cid) ==
  LET c == <<sd, cid>>
      members == categorizables(heap, pr[sd], c)
      h1 == [o \in Insts |-> IF o \in members
                              THEN [heap[o] EXCEPT !.categories = @ \ {c}]
                              ELSE heap[o]]
      cs1 == [id \in Ids |->
                IF <<sd, id>> \in members
                THEN recordChange(changesOf(sd), id, CATEGORIES)[id]
                ELSE changesOf(sd)[id]]
  IN /\ cid \in CategoryIds
     /\ editable(pr, sd, cid)
     /\ edited(sd, h1, [listsOf(sd) EXCEPT !["category"] = @ \ {c}],
               recordRemoved(cs1, {cid}))

\* a new top-level category is created
AddCategory(pr, sd, cid) ==
  LET c == <<sd, cid>>
  IN /\ cid \in CategoryIds
     /\ unused(pr, cid)
     /\ edited(sd, [heap EXCEPT ![c] = Blank],
               [listsOf(sd) EXCEPT !["category"] = @ \cup {c}], changesOf(sd))

CategoryNext ==
  \/ /\ nsync = 0 /\ nedits < MaxCategoryEdits
     /\ LET pr == present
        IN \E sd \in EditSides, id \in TaskIds, cid \in CategoryIds :
             ToggleCategory(pr, sd, id, cid)
  \/ /\ nsync = 0 /\ nedits < MaxCategoryEdits
     /\ LET pr == present
        IN \E sd \in EditSides, cid \in CategoryIds : DeleteCategory(pr, sd, cid)
  \/ /\ nsync = 0 /\ nedits < MaxCategoryEdits
     /\ LET pr == present
        IN \E sd \in EditSides, cid \in CategoryIds : AddCategory(pr, sd, cid)
  \/ \E ord \in Orders : Sync(ord)

CategorySpec == CategoryInit /\ [][CategoryNext]_vars

\* the tasks of mem whose disk-side record named their categories when the
\* last sync() began
categoriesChangedOnDisk(id) ==
  /\ id \in TaskIds \cup NoteIds
  /\ id \in pre.ids
  /\ pre.dch[id] # NoRec
  /\ CATEGORIES \in pre.dch[id]
  /\ DEL \notin pre.dch[id]

\* C31: category resolution never fails.  Categories are merged before tasks
\* and notes, and a sync() that has a __categories__ disk change of a task
\* or note to apply finds every category of the disk object in the mem id
\* map: it does not end with a missing-id failure, whatever the two devices
\* did with the categories, deleting one on this device while the other
\* device assigned it included.
CategoryResolution ==
  /\ ListKinds[1] = "category"
  /\ (syncEnded /\ \E id \in Ids : categoriesChangedOnDisk(id))
        => syncErr # "KeyError"

\* ------------------------------------------------ the third pass: results
\* x was in mem when the last sync() began and its disk-side record named
\* __parent__
reparentedOnDisk(x) ==
  /\ x \in TaskIds
  /\ x \in pre.ids
  /\ x \in diskIds
  /\ hasChange(pre.dch, x, PARENT)

\* where the third pass has to put x
reparented(x) ==
  LET dp == diskView[x].parent
      old == pre.view[x].parent
  IN /\ x \in memIds
     /\ IF dp = "-" THEN memView[x].parent = "-"
        ELSE IF inMemMap(dp)
        THEN /\ dp \in memIds
             /\ memView[x].parent = dp
             /\ InSeq(memView[dp].children, x)
        ELSE /\ memView[x].parent = "-"
             /\ hasChange(conflictChanges, x, PARENT)
     /\ (old # "-" /\ old # dp /\ old \in memIds)
          => ~InSeq(memView[old].children, x)

\* C32 -- pass-3 reparenting result: for every object X of mem whose
\* disk-side record contains __parent__, sync() returns, and after it the mem
\* parent of X is the mem object with the id of X's disk parent when that id
\* is in the mem map (None when the disk parent is None), X is not a child
\* of its previous mem parent any more, and when the disk parent is missing
\* from mem X is top-level with __parent__ recorded in conflictChanges.
PassThreeReparenting ==
  syncEnded =>
    \A x \in TaskIds : reparentedOnDisk(x) => syncErr = "" /\ reparented(x)

\* ----------------------------------------------------------- the forest
\* the objects this process holds: those of the in-memory lists before and
\* after the last sync()
held == pre.objs \cup memObjects(heap, memLists)

RECURSIVE ancestors(_, _, _)
\* Composite.ancestors, followed for at most n steps
ancestors(h, o, n) ==
  LET p == h[o].parent
  IN IF p = None \/ n = 0 THEN {} ELSE {p} \cup ancestors(h, p, n - 1)

\* C33 -- the merged graph is a forest: after sync() no object of the
\* in-memory graph is its own ancestor and no list of children leads back
\* to its owner, whatever the two devices reparented, mem moving X under Y
\* while disk moves Y under X included.
MergedForest ==
  syncEnded =>
    \A o \in held : o \notin ancestors(heap, o, Cardinality(Ids))
                      /\ ~cyclic(heap, o)

\* x was deleted on this device, and its disk-side record names __parent__
reparentedButDeleted(x) ==
  /\ x \in TaskIds
  /\ x \notin pre.ids
  /\ hasChange(pre.mon, x, DEL)
  /\ x \in diskIds
  /\ hasChange(pre.dch, x, PARENT)

\* C35 -- reparent on disk versus local delete: when the disk-side record of
\* an object contains __parent__ and the object was deleted locally (absent
\* from mem, __del__ in the local monitor), sync() completes without a
\* missing-id failure and the object stays absent from mem.
ReparentVersusLocalDelete ==
  syncEnded =>
    \A x \in TaskIds :
      reparentedButDeleted(x) => syncErr # "KeyError" /\ x \notin memIds

\* ------------------------------------------------------ local-only edits
\* Number of edits of attributes the two devices make before A merges.
MaxFrameEdits == 2

\* The two devices change subjects, appearances and category memberships of
\* the tasks of a file with one category, device A also moves tasks; then A
\* merges
FrameNext ==
  \/ /\ nsync = 0 /\ nedits < MaxFrameEdits
     /\ LET pr == present
        IN \E sd \in EditSides, id \in TaskIds, v \in MemValues \cup DiskValues :
             SetSubject(pr, sd, id, v)
  \/ /\ nsync = 0 /\ nedits < MaxFrameEdits
     /\ LET pr == present
        IN \E sd \in EditSides, id \in TaskIds, a \in SeqToSet(attrNames),
              v \in AppearanceValues : SetAppearance(pr, sd, id, a, v)
  \/ /\ nsync = 0 /\ nedits < MaxFrameEdits
     /\ LET pr == present
        IN \E sd \in EditSides, id \in TaskIds, cid \in CategoryIds :
             ToggleCategory(pr, sd, id, cid)
  \/ /\ nsync = 0 /\ nedits < MaxFrameEdits
     /\ LET pr == present
        IN \E id \in TaskIds, pid \in TaskIds \cup {"-"} : Reparent(pr, "m", id, pid)
  \/ \E ord \in Orders : Sync(ord)

FrameSpec == CategoryInit /\ [][FrameNext]_vars

\* the disk-side record of id, when the last sync() began, names the change
namedOnDisk(id, name) == hasChange(pre.dch, id, name)

\* the attributes of id that the disk-side record does not name have the
\* values mem had before the last sync()
unnamedKept(id) ==
  /\ ~namedOnDisk(id, SUBJECT) => memView[id].subject = pre.view[id].subject
  /\ ~namedOnDisk(id, APPEARANCE)
       => memView[id].appearance = pre.view[id].appearance
  /\ ~namedOnDisk(id, CATEGORIES)
       => memView[id].categories = pre.view[id].categories
  /\ ~namedOnDisk(id, PARENT) => memView[id].parent = pre.view[id].parent

program == <<heap, memLists, fileLists, monitor, allChanges, conflictChanges,
             nedits, nsync, syncErr, pre, files, taskFile, session, notifier,
             frozen, iphone>>

\* the commands the user's actions create
Commands == {"new", "edit"}

\* Longest history that is followed
MaxHistory == 4

\* Number of past calls the history of calls keeps
MaxCallsKept == 2

\* a faulty append that keeps the commands that were undone
appendCommandKeepsFuture(h, command) == [h EXCEPT !.history = Append(@, command)]

\* CommandHistory.append: self.__history.append(command); del self.__future[:]
appendCommand(h, command) ==
  [h EXCEPT !.history = Append(@, command), !.future = <<>>]

\* CommandHistory.undo: "if self.__history:" the last command is popped,
\* undone and appended to the future
undo(h) ==
  IF h.history # <<>>
  THEN [h EXCEPT !.history = SubSeq(@, 1, Len(@) - 1),
                 !.future = Append(@, h.history[Len(h.history)])]
  ELSE h

\* CommandHistory.redo: "if self.__future:" the last undone command is
\* popped, redone and appended to the history
redo(h) ==
  IF h.future # <<>>
  THEN [h EXCEPT !.future = SubSeq(@, 1, Len(@) - 1),
                 !.history = Append(@, h.future[Len(h.future)])]
  ELSE h

\* CommandHistory.clear: del self.__history[:]; del self.__future[:]
clear(h) == [h EXCEPT !.history = <<>>, !.future = <<>>]

\* the call name(arg) is added to the calls made, with the lists it found;
\* the oldest call is forgotten
called(h, before, name, arg) ==
  LET call == [name |-> name, arg |-> arg, history |-> before.history,
               future |-> before.future]
      kept == IF Len(before.calls) < MaxCallsKept THEN before.calls
              ELSE Tail(before.calls)
  IN [h EXCEPT !.calls = Append(kept, call)]

\* what the command history leaves alone
commandFrame == UNCHANGED <<program, controller, devices>>

\* Command.do: the command appends itself to the history
CommandDo(command) ==
  /\ Len(commandHistory.history) < MaxHistory
  /\ commandHistory' = called(appendCommand(commandHistory, command), commandHistory,
                              "append", command)
  /\ commandFrame

CommandUndo ==
  /\ commandHistory' = called(undo(commandHistory), commandHistory, "undo", "")
  /\ commandFrame

CommandRedo ==
  /\ commandHistory' = called(redo(commandHistory), commandHistory, "redo", "")
  /\ commandFrame

CommandClear ==
  /\ commandHistory' = called(clear(commandHistory), commandHistory, "clear", "")
  /\ commandFrame

CommandNext ==
  \/ \E command \in Commands : CommandDo(command)
  \/ CommandUndo
  \/ CommandRedo
  \/ CommandClear

CommandSpec == Init /\ [][CommandNext]_vars

RECURSIVE reversed(_)
reversed(q) == IF q = <<>> THEN <<>> ELSE Append(reversed(Tail(q)), Head(q))

\* the history followed by the reversed future
timeline(h) == h.history \o reversed(h.future)

\* the two lists are those of h
sameLists(h) ==
  commandHistory.history = h.history /\ commandHistory.future = h.future

MaxOpens == 2

\* what open() leaves alone apart from the task file and its lock
controllerFrame ==
  UNCHANGED <<session, notifier, frozen, iphone, devices>>

\* the way a load is asked for
mode(lock, breakLock) ==
  IF ~lock THEN "unlocked" ELSE IF breakLock THEN "lock-broken" ELSE "locked"

LockErrors == {"LockTimeout", "LockFailed"}

\* the question open() asks after a load that ended with a lock error
question(breakLock, exc) ==
  IF exc = "LockTimeout" /\ ~breakLock THEN "askBreakLock" ELSE "askOpenUnlocked"

\* a faulty handler that breaks the lock again after a lock-broken load
\* has timed out
retryBreaksAgain(breakLock, exc, yes) ==
  IF exc \notin LockErrors \/ ~yes THEN "return"
  ELSE IF exc = "LockTimeout" THEN "lock-broken"
  ELSE "unlocked"

\* the except clauses of open(): the load open() asks for next, or "return"
retry(breakLock, exc, yes) ==
  IF exc \notin LockErrors \/ ~yes THEN "return"
  ELSE IF exc = "LockTimeout" /\ ~breakLock THEN "lock-broken"
  ELSE "unlocked"

\* open() and the open() calls that called it return
returns(c, result) ==
  [c EXCEPT !.pc = "idle", !.depth = 0, !.result = result]

\* the user asks for a file to be opened, with or without unsaved changes,
\* with or without a file open: open(filename=None)
Open(unsaved, named) ==
  /\ controller.pc = "idle"
  /\ running({"idle"})
  /\ controller.opens < MaxOpens
  /\ unsaved => named
  /\ controller' = [controller EXCEPT
                      !.pc = "open.start", !.lock = TRUE, !.breakLock = FALSE,
                      !.depth = 1, !.attempts = <<>>, !.dirty = unsaved,
                      !.named = named, !.result = "", !.opens = @ + 1]
  /\ UNCHANGED <<files, taskFile, commandHistory>>
  /\ UNCHANGED graph
  /\ controllerFrame

\* open() up to "if fileExists(filename)": unsaved changes are saved or
\* given up unless the user cancels, the user chooses a file unless one
\* was given, a file that does not exist is reported
OpenStart(proceed, chosen) ==
  /\ controller.pc = "open.start"
  /\ controller.depth > 1 => chosen
  /\ controller' =
       IF controller.dirty /\ ~proceed THEN returns(controller, "cancelled")
       ELSE IF ~chosen THEN returns(controller, "no file")
       ELSE IF files.main.kind = "missing" THEN returns(controller, "missing")
       ELSE [controller EXCEPT !.pc = "open.close"]
  /\ UNCHANGED <<files, taskFile, commandHistory>>
  /\ UNCHANGED graph
  /\ controllerFrame

\* __closeUnconditionally: LockedTaskFile.close() takes the lock of the file
\* that is open, and its exception leaves open(); the command history is
\* cleared
OpenClose(locking) ==
  /\ controller.pc = "open.close"
  /\ ~controller.named => locking = "ok"
  /\ IF locking = "ok"
     THEN /\ controller' = [controller EXCEPT !.pc = "open.load",
                                              !.dirty = FALSE, !.named = FALSE]
          /\ commandHistory' = clear(commandHistory)
     ELSE /\ controller' = returns(controller, locking)
          /\ UNCHANGED commandHistory
  /\ UNCHANGED <<files, taskFile>>
  /\ UNCHANGED graph
  /\ controllerFrame

\* self.__taskFile.load(filename, lock=lock, breakLock=breakLock)
OpenLoad ==
  LET c == [op |-> "load", lock |-> controller.lock,
            breakLock |-> controller.breakLock, needSave |-> FALSE]
      attempt == [mode |-> mode(controller.lock, controller.breakLock),
                  exc |-> "", asked |-> "", yes |-> FALSE]
  IN /\ controller.pc = "open.load"
     /\ running({"idle"})
     /\ taskFile' = [taskFile EXCEPT !.pc = firstStatement(c), !.op = c.op,
                                     !.lock = c.lock, !.breakLock = c.breakLock,
                                     !.needSave = c.needSave, !.waited = 0,
                                     !.exc = "", !.result = "", !.touched = {}]
     /\ controller' = [controller EXCEPT !.pc = "open.except",
                                         !.attempts = Append(@, attempt)]
     /\ UNCHANGED <<files, commandHistory>>
     /\ UNCHANGED graph
     /\ controllerFrame

\* self.__lock.acquire(5) where the location does not support locking
LockFails ==
  /\ running({"load.acquire"})
  /\ ~is_locked_by_me
  /\ taskFile' = goesTo([taskFile EXCEPT !.exc = "LockFailed", !.lockObj = TRUE],
                        afterTimeout(taskFile.pc))
  /\ UNCHANGED files
  /\ UNCHANGED graph
  /\ UNCHANGED watch

\* load() has returned or raised: after a lock error the user is asked and
\* open() calls itself, any other exception is reported
OpenExcept(yes) ==
  LET exc == IF taskFile.result = "ok" THEN "" ELSE taskFile.result
      n == Len(controller.attempts)
      ended == [controller EXCEPT
                  !.attempts[n].exc = exc,
                  !.attempts[n].asked =
                     IF exc \in LockErrors THEN question(controller.breakLock, exc)
                     ELSE "",
                  !.attempts[n].yes = exc \in LockErrors /\ yes]
      again == retry(controller.breakLock, exc, yes)
  IN /\ controller.pc = "open.except"
     /\ running({"idle"})
     /\ controller' =
          IF exc = "" THEN returns([ended EXCEPT !.named = TRUE], "loaded")
          ELSE IF again = "return" THEN returns(ended, exc)
          ELSE [ended EXCEPT !.pc = "open.start", !.depth = @ + 1,
                             !.lock = again # "unlocked",
                             !.breakLock = again = "lock-broken"]
     /\ UNCHANGED <<files, taskFile, commandHistory>>
     /\ UNCHANGED graph
     /\ controllerFrame

ControllerInit ==
  /\ Loaded
  /\ \E kind \in {"complete", "partial", "missing"} :
       files = [FilesAtRest(FALSE) EXCEPT !.main = Content(kind, 0)]
  /\ taskFile = TaskFileAtRest
  /\ Unwatched

ControllerNext ==
  \/ \E unsaved \in BOOLEAN, named \in BOOLEAN : Open(unsaved, named)
  \/ \E proceed \in BOOLEAN, chosen \in BOOLEAN : OpenStart(proceed, chosen)
  \/ \E locking \in {"ok"} \cup LockErrors : OpenClose(locking)
  \/ OpenLoad
  \/ BreakLock
  \/ AcquireLock
  \/ WaitForLock
  \/ LockTimeout
  \/ LockFails
  \/ LoadFile
  \/ WriteDelta
  \/ ReleaseLock
  \/ \E yes \in BOOLEAN : OpenExcept(yes)
  \/ OtherAcquire
  \/ OtherRelease

\* the steps of open() and of the load it has asked for, the reading of the
\* file apart
openSteps ==
  \/ \E proceed \in BOOLEAN, chosen \in BOOLEAN : OpenStart(proceed, chosen)
  \/ \E locking \in {"ok"} \cup LockErrors : OpenClose(locking)
  \/ OpenLoad
  \/ BreakLock
  \/ AcquireLock
  \/ WaitForLock
  \/ LockTimeout
  \/ LockFails
  \/ WriteDelta
  \/ ReleaseLock
  \/ \E yes \in BOOLEAN : OpenExcept(yes)

\* the main thread goes on as long as it has a step to take, the user
\* answers the questions asked, and the reading of the file comes to an end
ControllerSpec ==
  /\ ControllerInit
  /\ [][ControllerNext]_vars
  /\ WF_vars(openSteps)
  /\ []<>~running({"load.read"})

\* the place of a way of loading in the escalation
rank(m) == CASE m = "locked" -> 1 [] m = "lock-broken" -> 2 [] m = "unlocked" -> 3

\* the loads asked for so far: at most three, from locked to lock-broken to
\* unlocked, an unlocked one only after a load that ended with a lock error
\* and the user's consent to open the file unlocked
escalation ==
  LET a == controller.attempts
  IN /\ Len(a) <= 3
     /\ \A i \in 1 .. Len(a) :
          /\ i = 1 => a[i].mode = "locked"
          /\ i > 1 => rank(a[i - 1].mode) < rank(a[i].mode)
          /\ a[i].mode = "unlocked" =>
               /\ i > 1
               /\ a[i - 1].exc \in LockErrors
               /\ a[i - 1].asked = "askOpenUnlocked"
               /\ a[i - 1].yes
          /\ a[i].mode = "lock-broken" =>
               /\ a[i - 1].exc = "LockTimeout"
               /\ a[i - 1].asked = "askBreakLock"
               /\ a[i - 1].yes

opening == controller.pc # "idle"

\* C38 -- Open-with-lock escalation terminates: whatever the lock does and
\* whatever the user answers, open() asks for at most three loads of the
\* file, locked, then lock-broken, then unlocked, and comes to an end; a
\* load without a lock follows only a load that ended with a lock timeout
\* or a lock failure and the user's consent.
OpenEscalates == []escalation /\ (opening ~> ~opening)

\* the locked load and the lock-broken load timed out, the user agreed
\* twice, and the file was loaded without a lock
OpenEscalatesWitness ==
  /\ controller.pc = "idle"
  /\ controller.result = "loaded"
  /\ Len(controller.attempts) = 3
  /\ controller.attempts[1].exc = "LockTimeout"
  /\ controller.attempts[2].exc = "LockTimeout"
  /\ controller.attempts[3].mode = "unlocked"
  /\ "unlock" \notin taskFile.touched
  /\ files.lock = "other"

\* ------------------------------------- TaskFile.merge (taskfile.py:901-929)
\* the task the merged file holds
MergedId == "t4"

\* how mergeFile.load(filename) and mergeFile.close() end: LockedTaskFile
\* takes the lock of the merged file in both
MergeFileErrors == ReadErrors \cup {"LockTimeout"}

\* TaskFile.needSave: "not self.__loading and self.__needSave"
needSave(s) == ~s.loading /\ s.needSave

\* the user asks for another file to be merged into this one
MergeFileCall ==
  /\ at({"idle"})
  /\ session.calls < MaxCalls
  /\ ~notifier.cancelled
  /\ session' = [session EXCEPT !.pc = "mergeFile.load", !.op = "merge",
                                !.exc = "", !.calls = @ + 1]
  /\ UNCHANGED <<apart, iphone, notifier, frozen>>
  /\ UNCHANGED graphOnly
  /\ idleFiles

\* mergeFile = self.__class__(); mergeFile.load(filename), whose exception
\* leaves merge(); then self.__loading = True
MergeFileLoad(outcome) ==
  /\ at({"mergeFile.load"})
  /\ session' = IF outcome = "ok"
                THEN [session EXCEPT !.pc = "mergeFile.lists", !.loading = TRUE]
                ELSE next([session EXCEPT !.exc = outcome], "idle")
  /\ UNCHANGED <<apart, iphone, notifier, frozen>>
  /\ UNCHANGED graphOnly
  /\ idleFiles

\* the objects with the ids of the merged file's objects are removed and
\* the merged file's root items added; onDomainObjectAddedOrRemoved returns
\* at once while the loading flag is up
MergeFileLists ==
  LET o == <<"m", MergedId>>
  IN /\ at({"mergeFile.lists"})
     /\ heap' = [heap EXCEPT ![o] = Blank]
     /\ memLists' = [memLists EXCEPT !["task"] = @ \cup {o}]
     /\ session' = IF session.loading \/ session.saving
                   THEN [session EXCEPT !.pc = "mergeFile.close"]
                   ELSE [session EXCEPT !.pc = "mergeFile.close", !.needSave = TRUE]
     /\ UNCHANGED <<fileLists, monitor, allChanges, conflictChanges, nedits,
                    nsync, syncErr, pre>>
     /\ UNCHANGED <<apart, iphone, notifier, frozen>>
     /\ idleFiles

\* mergeFile.close(); self.__loading = False; self.markDirty(force=True):
\* an exception of close() leaves merge() before the flag is lowered
closed(s, outcome) ==
  IF outcome = "ok"
  THEN next([s EXCEPT !.loading = FALSE, !.needSave = TRUE], "idle")
  ELSE next([s EXCEPT !.exc = outcome], "idle")

MergeFileClose(outcome) ==
  /\ at({"mergeFile.close"})
  /\ session' = closed(session, outcome)
  /\ UNCHANGED <<apart, iphone, notifier, frozen>>
  /\ UNCHANGED graphOnly
  /\ idleFiles

MergeFileNext ==
  \/ \E op \in SessionOps : SessionCall(op)
  \/ LoadSetFilename
  \/ LoadRead
  \/ LoadExcept
  \/ LoadFinally
  \/ SaveSaving
  \/ MergeLoading
  \/ \E ord \in Orders : MergeRead(ord)
  \/ MergeThaw
  \/ MergeReset
  \/ MergeFinally
  \/ SaveWrite
  \/ SaveRename
  \/ SaveFinally
  \/ SaveSaved
  \/ \E id \in SessionIds, v \in MemValues : ChangeTask(id, v)
  \/ \E kind \in OtherKinds : OtherWrite(kind)
  \/ MergeFileCall
  \/ \E outcome \in {"ok"} \cup MergeFileErrors : MergeFileLoad(outcome)
  \/ MergeFileLists
  \/ \E outcome \in {"ok", "LockTimeout"} : MergeFileClose(outcome)

MergeFileSpec == SessionInit /\ [][MergeFileNext]_vars

\* C37 -- Loading/saving flags are always restored: whenever load, save,
\* mergeDiskChanges or merge(filename) has returned or raised, the loading
\* flag and the saving flag are down, so that needSave() is the dirty flag
\* and an edit that follows marks the file dirty.
FlagsRestored ==
  /\ [](at({"idle"}) => /\ ~session.loading
                        /\ ~session.saving
                        /\ needSave(session) = session.needSave)
  /\ [][at({"idle"}) /\ nedits' > nedits => needSave(session')]_vars

\* ------------------------- two devices that share a task file (taskfile.py)
\* Edits the users of the two devices make
MaxDeviceEdits == 2

\* Calls of load, mergeDiskChanges and save the two devices make
MaxDeviceOps == 4

\* the tasks the users edit; the first is the object o of the claim, its
\* subject the attribute x
TrackedId == "t1"
DeviceIds == {TrackedId, "t3"}
DeviceValues == {1, 2}

\* what the two devices leave alone
devicesFrame ==
  UNCHANGED <<memLists, monitor, conflictChanges, nedits, nsync, syncErr, pre,
              files, taskFile, session, notifier, frozen, iphone,
              commandHistory, controller>>

\* the lists and objects of a TaskFile, by id: the instances are on side "m"
stored(h, ls) ==
  LET objs == memObjects(h, ls)
  IN [h |-> [id \in Ids |->
               IF \E x \in objs : IdOf(x) = id
               THEN readObject("m", h[CHOOSE x \in objs : IdOf(x) = id])
               ELSE Blank],
      ls |-> [L \in SeqToSet(ListKinds) |-> {rename("m", o) : o \in ls[L]}]]

\* the objects of device g next to those of the file
deviceHeap(g) ==
  [o \in Insts |-> IF o[1] = "m" THEN devices.mem[g].h[o[2]] ELSE heap[o]]

\* the working state the sync() of device g starts with
deviceStart(g, ord) ==
  [h |-> read(deviceHeap(g), ReadSide(1)), ml |-> devices.mem[g].ls,
   dl |-> readLists(ReadSide(1)),
   memMap |-> NoMap, memOwnerMap |-> NoMap,
   diskMap |-> NoMap, diskOwnerMap |-> NoMap,
   mon |-> devices.mon[g], dch |-> allChanges[g],
   conf |-> empty, ord |-> ord, err |-> ""]

\* what mergeDiskChanges of device g leaves behind, t being the working
\* state its sync() ended with: in save() the monitor was merged into the
\* records of the other devices before sync() did so again; the monitor
\* becomes this device's record and is reset, the sidecar is written.  An
\* exception of sync() leaves before the sidecar is written
afterSync(g, saving, t) ==
  [err |-> t.err,
   mem |-> stored(t.h, t.ml),
   mon |-> IF t.err = "" THEN resetAllChanges(cleanupMonitor(t.h, t.ml))
           ELSE devices.mon[g],
   delta |-> IF t.err # "" THEN allChanges
             ELSE [k \in Guids |->
                     IF k = g THEN resetAllChanges(cleanupMonitor(t.h, t.ml))
                     ELSE IF saving
                     THEN merge(merge(merge(allChanges[k], devices.mon[g]),
                                      devices.mon[g]), t.conf)
                     ELSE merge(merge(allChanges[k], devices.mon[g]), t.conf)]]

\* TaskFile.mergeDiskChanges of device g: the file and its sidecar are read
\* and sync() merges the lists
mergedFromDisk(g, ord, saving) ==
  afterSync(g, saving, mergeLists(deviceStart(g, ord)))

\* the main file as device g writes it
mainWritten(mem) ==
  [o \in Insts |-> IF o[1] = "f" THEN readObject("f", mem.h[o[2]]) ELSE heap[o]]

\* the user of device g changes the subject of a task; the monitor records
\* it and onTaskChanged marks the file dirty
DeviceEdit(g, id, v) ==
  /\ devices.edits < MaxDeviceEdits
  /\ devices.mon[g][id] # NoRec
  /\ devices.mem[g].h[id].subject # v
  /\ devices' = [devices EXCEPT
       !.mem[g].h[id].subject = v,
       !.mon[g] = recordChange(@, id, SUBJECT),
       !.dirty[g] = TRUE,
       !.edits = @ + 1,
       !.changers = IF id = TrackedId THEN @ \cup {g} ELSE @,
       !.stage = IF id = TrackedId /\ g = ThisGuid THEN "edited" ELSE @]
  /\ UNCHANGED <<heap, fileLists, allChanges>>
  /\ devicesFrame

\* TaskFile.load of device g: the lists are replaced by what the file
\* holds, the monitor starts afresh and becomes this device's record in the
\* sidecar, the file is clean
DeviceLoad(g) ==
  LET mem == stored(heap, fileLists)
      mon == cleanupMonitor(heap, fileLists)
  IN /\ devices.ops < MaxDeviceOps
     /\ devices' = [devices EXCEPT
          !.mem[g] = mem, !.mon[g] = mon, !.dirty[g] = FALSE, !.ops = @ + 1,
          !.stage = IF g = ThisGuid /\ @ = "edited" THEN "none" ELSE @]
     /\ allChanges' = [allChanges EXCEPT ![g] = mon]
     /\ UNCHANGED <<heap, fileLists>>
     /\ devicesFrame

\* mergeDiskChanges has ended with r
deviceMerged(g, r) ==
  /\ devices' = [devices EXCEPT
       !.mem[g] = r.mem, !.mon[g] = r.mon, !.ops = @ + 1,
       !.stage = IF r.err = "" /\ g = OtherGuid /\ @ = "saved" THEN "seen"
                 ELSE @]
  /\ allChanges' = r.delta
  /\ UNCHANGED <<heap, fileLists>>

\* TaskFile.mergeDiskChanges of device g, called on its own
DeviceMerge(g, ord) ==
  /\ devices.ops < MaxDeviceOps
  /\ deviceMerged(g, mergedFromDisk(g, ord, FALSE))
  /\ devicesFrame

\* the mergeDiskChanges of save() has ended with r: the main file is written
\* if there is something to save, and the file is clean
deviceSaved(g, r) ==
  /\ devices' = [devices EXCEPT
       !.mem[g] = r.mem, !.mon[g] = r.mon, !.ops = @ + 1,
       !.dirty[g] = IF r.err = "" THEN FALSE ELSE @,
       !.stage = IF r.err # "" THEN @
                 ELSE IF g = ThisGuid /\ @ = "edited" THEN "saved"
                 ELSE IF g = OtherGuid /\ @ = "saved" THEN "seen"
                 ELSE @,
       !.value = IF r.err = "" /\ g = ThisGuid /\ devices.stage = "edited"
                 THEN r.mem.h[TrackedId].subject ELSE @]
  /\ allChanges' = r.delta
  /\ heap' = IF r.err = "" /\ devices.dirty[g] THEN mainWritten(r.mem) ELSE heap
  /\ fileLists' = IF r.err = "" /\ devices.dirty[g] THEN writtenLists(r.mem.ls)
                  ELSE fileLists

\* TaskFile.save of device g
DeviceSave(g, ord) ==
  /\ devices.ops < MaxDeviceOps
  /\ deviceSaved(g, mergedFromDisk(g, ord, TRUE))
  /\ devicesFrame

\* the two devices have loaded the same file.  stage follows the claim:
\* device A has changed o.x ("edited"), has completed a save() since
\* ("saved", value being what it saved), device B has completed a
\* mergeDiskChanges() or a save() after that ("seen"); changers are the
\* devices that have changed o.x
DevicesLoaded ==
  [mem |-> [g \in Guids |->
              [h |-> [id \in Ids |-> IF id \in BaseIds THEN BaseObject("m", id)
                                     ELSE Blank],
               ls |-> BaseLists("m")]],
   mon |-> [g \in Guids |-> BaseChanges],
   dirty |-> [g \in Guids |-> FALSE],
   edits |-> 0, ops |-> 0, changers |-> {}, stage |-> "none", value |-> 0]

DevicesInit ==
  /\ Loaded
  /\ files = FilesAtRest(FALSE)
  /\ taskFile = TaskFileAtRest
  /\ session = SessionAtRest(TRUE, FALSE)
  /\ notifier = NotifierAtRest
  /\ frozen = MonitorThawed
  /\ iphone = NoHandler
  /\ commandHistory = NoCommands
  /\ controller = ControllerAtRest
  /\ devices = DevicesLoaded

DevicesNext ==
  \/ \E g \in Guids, id \in DeviceIds, v \in DeviceValues : DeviceEdit(g, id, v)
  \/ \E g \in Guids : DeviceLoad(g)
  \/ \E g \in Guids, ord \in Orders : DeviceMerge(g, ord)
  \/ \E g \in Guids, ord \in Orders : DeviceSave(g, ord)

DevicesSpec == DevicesInit /\ [][DevicesNext]_vars

\* C34 -- No lost update between devices: once device A has changed o.x and
\* completed a save(), and device B, which never changed o.x, has completed
\* a mergeDiskChanges() or a save() after that, B's value of o.x in memory is
\* the value A saved, whatever load(), mergeDiskChanges() and save() calls
\* the two devices made in between.
NoLostUpdate ==
  devices.stage = "seen" /\ OtherGuid \notin devices.changers
    => devices.mem[OtherGuid].h[TrackedId].subject = devices.value
====
